---- MODULE Spec2Model ----
(***************************************************************************)
(* HoverPal: a model of the Raspberry Pi WebSocket server                  *)
(* (src/websocket_server/Pi): the session registry of server_core.py, the  *)
(* command state machine of server_commands.py and the per-connection      *)
(* handler of server_main.py, as tasks of one asyncio event loop.          *)
(*                                                                         *)
(* A task runs without interruption from one suspension point to the       *)
(* next, so an action of this module is the code a task executes between   *)
(* two awaits.  The suspension points of a handler are the receive of the  *)
(* next message (server_commands.py:29) and the asyncio.gather inside      *)
(* broadcast_text (server_core.py:104), which suspends the caller exactly  *)
(* when at least one send was issued.                                      *)
(*                                                                         *)
(* Around the handlers: the broadcast task (server_core.broadcast_loop),   *)
(* the capture thread and the frame cell of server_camera.py, and the      *)
(* record_active flag of one client (Jetson/client_core.py).  Each has a   *)
(* specification of its own: Spec is the handlers, SpecSync adds the       *)
(* client, SpecLoop the broadcast task, SpecCamera is the capture thread.  *)
(*                                                                         *)
(* Beside the server: the recording pipeline of the client                 *)
(* (Jetson/client_core.py: frames written to a directory, the encoder run  *)
(* on RECORD_STOPPED) under SpecRecorder, and the encrypted frame packets  *)
(* of src/udp_connect (encrypt_data on the server, decrypt_data on the     *)
(* client) under SpecCipher, with the feed tasks that call encrypt_data    *)
(* under SpecFeed.  The state of each is one record, recorder and cipher,  *)
(* which is Absent in the specifications of the server.                    *)
(*                                                                         *)
(* Further specifications: SpecLimited is the broadcast task with          *)
(* FPS_LIMIT_ENABLED set (server_core.py:81-86), SpecFair is Spec with the *)
(* fairness of the event loop, SpecShutdown is the end of the process      *)
(* (server_main.py:58-84, record process) and SpecViewer is the viewer     *)
(* that dials its candidate addresses (udpu_client_connect.py:90-133,      *)
(* record viewer).                                                         *)
(***************************************************************************)
EXTENDS Integers, Sequences, FiniteSets, TLC

\* ------------------------------------------------------------------ bounds
NumConns == 2          \* connection handles that may exist at the same time

Conns == 1..NumConns
None == 0              \* Python's None in controlling_client

\* ------------------------------------------------------------ vocabulary
\* Raw messages a client may put on the wire.  Text arrives as typed by the
\* client; BIN stands for any binary message.
Commands == {"START_LINK", "STOP_LINK", "START_STREAM", "STOP_STREAM",
             "START_RECORD", "STOP_RECORD"}
RawTexts == Commands \cup {" start_stream\n", "Stop_Record", "PING"}
BIN == "<bytes>"
Messages == RawTexts \cup {BIN}

Notifications == {"STREAM_STARTED", "STREAM_STOPPED",
                  "RECORD_STARTED", "RECORD_STOPPED"}

\* message.strip().upper() on the texts of RawTexts
Normalize(m) ==
    CASE m = " start_stream\n" -> "START_STREAM"
      [] m = "Stop_Record"     -> "STOP_RECORD"
      [] OTHER                 -> m

\* --------------------------------------------------------------- state
VARIABLES
    connected_clients,   \* server_core.connected_clients
    controlling_client,  \* server_core.controlling_client (None or a connection)
    streaming_active,    \* server_core.streaming_active
    recording_active,    \* server_core.recording_active
    open,                \* open[c]: websocket.open of connection c
    unread,              \* unread[c]: the receive queue of c holds at least one message
    pc,                  \* pc[c]: where the handler task of c is suspended
    notes,               \* notes[c]: notifications broadcast so far by the command c is handling
    sent,                \* the broadcast_text calls made by the latest step, in order
    last,                \* the latest step, if a handler took it: who, what, and the
                         \* session and the connection set it found
    shutdown,            \* the event loop was stopped and every task cancelled
    tracked,             \* the connection whose client is followed (None: no client is)
    consumer,            \* client_core.record_active of that client, once it has
                         \* processed every notification sent to it so far
    loop_pc,             \* where the task of server_core.broadcast_loop is suspended
    inflight,            \* broadcast_loop: the connections whose send of line 78
                         \* has not completed yet
    frame,               \* broadcast_loop: the local `frame` of line 58
    did,                 \* the branch the latest iteration of broadcast_loop took
    latest_frame,        \* server_camera._latest_frame
    cam_pc,              \* where the thread of server_camera.capture_frames is
    picam_open,          \* capture_frames: picam2 is a configured, started camera
    device_ok,           \* the camera device works
    waited,              \* seconds of the time.sleep(2) of line 73 that have passed
    published,           \* the pixels of the frame published last ("none": none yet)
    health,              \* what the capture loop has been through since its
                         \* last capture error, if any
    got,                 \* the latest call of get_latest_frame: what it returned
                         \* and where the capture thread was
    recorder,            \* the recording client (Jetson/client_core.py): its
                         \* globals, its task, its clock and its disk
    cipher,              \* the encrypted server and its client (src/udp_connect)
    process,             \* the process of the server (server_main.main) from
                         \* the shutdown signal to its exit
    viewer               \* the viewer client (udpu_client_connect.py): its list
                         \* of candidates and its task

vars == <<connected_clients, controlling_client, streaming_active, recording_active,
          open, unread, pc, notes, sent, last, shutdown, tracked, consumer,
          loop_pc, inflight, frame, did, latest_frame,
          cam_pc, picam_open, device_ok, waited, published, health, got,
          recorder, cipher, process, viewer>>

\* the state of the broadcast task and of the camera module
bcast == <<loop_pc, inflight, frame, did>>
camera == <<latest_frame, cam_pc, picam_open, device_ok, waited,
            published, health, got>>

\* what is no part of the running Pi server: it is Absent from the
\* specifications of the server
elsewhere == <<recorder, cipher, process, viewer>>
Absent == [absent |-> TRUE]

session == <<controlling_client, streaming_active, recording_active>>

\* Suspension points of a handler (the values of pc[c]): no handler
\* ("none"), the receive of line 29 ("recv"), and the gather of the
\* broadcast_text call of the named line of server_commands.py.
BcastLabels == {"l54", "l63", "l69", "l74", "l81", "l90"}

\* One call broadcast_text(msg) by the handler of `by`: a send of msg was
\* issued to each connection of `to`.
Call(by, msg, to) == [by |-> by, msg |-> msg, to |-> to]

\* What a handler can do in one step (the op of a step): handle a message
\* (the command it parses to, the text of an unknown one, or BIN), continue a
\* STOP_STREAM after line 63 ("resume_stop_stream"), return from the last
\* broadcast of a command ("resume"), or run unregister_client ("unregister").
Step(by, op) == [by |-> by, op |-> op, was |-> session, conns |-> connected_clients]
NoStep == [by |-> None, op |-> "none", was |-> <<None, FALSE, FALSE>>, conns |-> {}]

\* A frame is an array and its pixels; no frame is None.  capture_array makes
\* a new array for each capture, get_latest_frame returns a copy.
Pixels == {"dark", "light"}
NoFrame == [buf |-> "none", pix |-> "none"]
Copy(f) == [buf |-> "copy", pix |-> f.pix]
FrameValues == {NoFrame} \cup {[buf |-> b, pix |-> p] : b \in {"array", "copy"}, p \in Pixels}

\* loop_pc: broadcast_loop is suspended in a sleep (lines 55, 60, 68, 89) or
\* in the gather of line 79, or an exception has ended it ("raised"); with
\* the FPS limit it can be at the top of the loop ("running", "spun").
\* did: the branch of one iteration: not streaming (line 54, "idle"), no frame
\* (59), not encoded (67), no send to issue (74, 77), sends issued (78,
\* "sent"); and sends issued of which one has failed by now ("failed").
\* cam_pc: capture_frames is about to capture (line 67), sleeps after an
\* error (line 73, "backoff"), or an exception has ended the thread.
\* health: no capture error so far ("clean"); a capture error and nothing
\* published since, with no reconfiguration failed ("error") or with one
\* failed ("retrying"); frames published again after it, without or with a
\* failed reconfiguration in between ("recovered", "recovered_late").
Publishing == {"clean", "recovered", "recovered_late"}

\* server_camera.py:73: the seconds capture_frames sleeps after an error
BackoffSeconds == 2

\* consumer, the followed client: it has no open connection ("absent"), it
\* connected while a recording was running and has seen no RECORD_*
\* notification yet ("late"), or its record_active is False ("off") or True
\* ("on").

\* ------------------------------------------------- the recording client
MaxClock == 3          \* the last instant of the client's clock
TicksPerSecond == 2    \* instants of the clock within one second

\* time.time(): a positive number, so None stands apart from every reading
Instants == 1..MaxClock
\* strftime("%Y%m%d_%H%M%S") of an instant: its second, the fraction dropped
Second(t) == t \div TicksPerSecond
Seconds == {Second(t) : t \in Instants}

\* videos/record_temp_<dt_str> is named by its second; pathlib.Path() is the
\* current directory
CurrentDir == -1
RecordTemp(dt_str) == dt_str
\* record_dir / f"{now_ts:.6f}.jpg"
JpgPath(dir, now_ts) == <<dir, now_ts>>
\* videos/VIDEO_<dt_str>.mkv, named by the second of a timestamp
VideoName(ts) == Second(ts)

\* The recording client:
\*   record_active, record_dir, first_frame_timestamp: the globals of lines 40-42
\*   rec_pc: where jetson_client_task is suspended: the receive of the
\*           `async for` (line 56), the awaits of lines 142 and 144 inside
\*           finalize_recording, or the end of the task after an exception
\*   now:    the clock of the client's machine
\*   dirs:   the directories videos/record_temp_* that exist
\*   jpgs:   the *.jpg files that exist, each in its directory
\*   done:   the message the client handled last, what it did for it so far,
\*           in the order it did it, and the container it named
NoMkv == -1
Nothing == [msg |-> "none", steps |-> <<>>, mkv |-> NoMkv]

\* --------------------------------------------- the encrypted frame packets
\* src/udp_connect: server_encryption.encrypt_data and
\* client_encryption.decrypt_data.  Bytes are the numbers 0..255, byte strings
\* are sequences of them.
MaxLen == 2            \* bytes of the longest plaintext
NumNonces == 2         \* different values get_random_bytes(12) may return
MaxCalls == 3          \* calls of encrypt_data that are followed

Plaintexts == UNION {[1..n -> {216, 255}] : n \in 0..MaxLen}

\* a 32-character key file, encoded: 32 bytes
KeyOf(seed) == [i \in 1..32 |-> 48 + ((seed * i) % 10)]
Keys == {KeyOf(3), KeyOf(7)}
\* get_random_bytes(12) returns one of these
NonceOf(seed) == [i \in 1..12 |-> (seed * 37 + i * 11) % 256]
Nonces == {NonceOf(seed) : seed \in 1..NumNonces}

\* b[lo:hi] of Python, for 0 <= lo <= hi: what is there of it
Slice(b, lo, hi) == SubSeq(b, lo + 1, IF hi < Len(b) THEN hi ELSE Len(b))

\* struct.pack("<I", n), for n < 2^32
PackLE32(n) ==
    <<n % 256, (n \div 256) % 256, (n \div 65536) % 256, (n \div 16777216) % 256>>
\* struct.unpack("<I", b)[0]; struct.error unless b has four bytes
StructError == -1
UnpackLE32(b) ==
    IF Len(b) # 4 THEN StructError
    ELSE b[1] + 256 * b[2] + 65536 * b[3] + 16777216 * b[4]

\* Cryptodome's ChaCha20_Poly1305 is a library.  In its place: a stream cipher
\* that XORs the text with a key stream of key, nonce and position, and a
\* 16-byte tag over key, nonce and ciphertext in which every bit of the
\* ciphertext counts (the sum below weighs each byte by an odd number).
RECURSIVE Xor(_, _)
Xor(a, b) ==
    IF a = 0 THEN b
    ELSE IF b = 0 THEN a
    ELSE ((a + b) % 2) + 2 * Xor(a \div 2, b \div 2)
ChaCha20(key, nonce, text) ==
    [i \in 1..Len(text) |->
        Xor(text[i], (key[((i - 1) % 32) + 1] + 7 * nonce[((i - 1) % 12) + 1]
                      + 13 * i) % 256)]
RECURSIVE Weighed(_, _, _)
Weighed(c, j, i) ==
    IF i > Len(c) THEN 0
    ELSE (c[i] * (2 * (i + j) + 1) + Weighed(c, j, i + 1)) % 256
Poly1305(key, nonce, c) ==
    [j \in 1..16 |-> (key[j] + 3 * key[j + 16] + 5 * nonce[((j - 1) % 12) + 1]
                      + Len(c) + Weighed(c, j, 1)) % 256]

\* cipher.encrypt_and_digest(data) of ChaCha20_Poly1305.new(key, nonce)
encrypt_and_digest(key, nonce, text) ==
    LET ciphertext == ChaCha20(key, nonce, text)
    IN  [ciphertext |-> ciphertext, tag |-> Poly1305(key, nonce, ciphertext)]
\* cipher.decrypt_and_verify(ciphertext, tag): the plaintext, or ValueError
\* when the tag is not the tag of the ciphertext
ValueError == <<-1>>
DecryptUnverified(key, nonce, ciphertext, tag) ==
    ChaCha20(key, nonce, ciphertext)
decrypt_and_verify(key, nonce, ciphertext, tag) ==
    IF tag = Poly1305(key, nonce, ciphertext)
    THEN ChaCha20(key, nonce, ciphertext)
    ELSE ValueError

\* server_encryption.py:40-45, with the nonce get_random_bytes(12) returned
PackedWithTotalLength(ciphertext, nonce, tag) ==
    PackLE32(4 + 12 + 16 + Len(ciphertext)) \o nonce \o tag \o ciphertext
Packed(ciphertext, nonce, tag) ==
    PackLE32(Len(ciphertext)) \o nonce \o tag \o ciphertext
EncryptFixedNonce(text, data_key, nonce) ==
    LET out == encrypt_and_digest(data_key, NonceOf(1), text)
    IN  Packed(out.ciphertext, NonceOf(1), out.tag)
encrypt_data(text, data_key, nonce) ==
    LET out == encrypt_and_digest(data_key, nonce, text)
    IN  Packed(out.ciphertext, nonce, out.tag)

\* What decrypt_data returns: bytes, or None from the line named; "raised"
\* stands for an exception that leaves the function.
ReturnedNone(line) == [ret |-> "None", value |-> <<>>, line |-> line]
Uncalled == [ret |-> "uncalled", value |-> <<>>, line |-> 0]

\* client_encryption.py:35
TooShortForLength(b) == FALSE
TooShort(b) == Len(b) < 4 + 12 + 16
\* client_encryption.py:40
NonceFromStart(b) == Slice(b, 0, 12)
NonceIn(b) == Slice(b, 4, 4 + 12)

\* client_encryption.py:33-49 with the DATA_KEY of the client.  Line 38
\* compares len(data) with 4+12+16+ciphertext_len; the model subtracts on the
\* left instead, the declared length may be close to the largest number it
\* can hold.
decrypt_data(b, DATA_KEY) ==
    IF TooShort(b) THEN ReturnedNone(36)
    ELSE LET ciphertext_len == UnpackLE32(Slice(b, 0, 4)) IN
         IF ciphertext_len = StructError THEN [ret |-> "raised", value |-> <<>>, line |-> 37]
         ELSE IF Len(b) - (4 + 12 + 16) < ciphertext_len THEN ReturnedNone(39)
         ELSE LET nonce == NonceIn(b)
                  tag == Slice(b, 4 + 12, 4 + 12 + 16)
                  ciphertext == Slice(b, 4 + 12 + 16, 4 + 12 + 16 + ciphertext_len)
                  plain == decrypt_and_verify(DATA_KEY, nonce, ciphertext, tag)
              IN  IF plain = ValueError THEN ReturnedNone(49)
                  ELSE [ret |-> "bytes", value |-> plain, line |-> 46]

\* what the channel did to a packet: nothing, cut it to `at` bytes, put
\* `to` into byte `at` of the length, or flipped bit `to` of byte `at`
Unedited == [kind |-> "none", at |-> 0, to |-> 0]

\* The encrypted server and its client:
\*   server_key, client_key: DATA_KEY of server_configuration and of
\*                 client_configuration
\*   plaintext:    the argument of the latest call of encrypt_data
\*   packet:       what that call returned
\*   data:         the bytes the client has received for it
\*   edit:         what the channel did to the packet on its way
\*   result:       what decrypt_data returned for data, once called
\*   feeds:        server_udp_connect.active_clients
\*   encrypt_calls: the calls of encrypt_data so far: for whom, which nonce

\* nothing was encrypted yet, nobody is connected to the encrypted server
NoTraffic(server_key, client_key) ==
    [server_key |-> server_key, client_key |-> client_key,
     plaintext |-> <<>>, packet |-> <<>>, data |-> <<>>, edit |-> Unedited,
     result |-> Uncalled, feeds |-> {}, encrypt_calls |-> <<>>]

\* ---------------------------------------------------- the process
\* The tasks server_main starts itself: run_ws_server and, through the gather
\* of line 56, broadcast_loop.  The only thread is the one of
\* start_camera_capture (server_core.py:47).
MainTasks == {"run_ws_server", "broadcast_loop"}
Threads == {"capture_frames"}

\* process.ended: the tasks of MainTasks that have ended; process.exited:
\* main() has returned; process.killed: the threads that were alive when the
\* interpreter exited and ended with it

\* ------------------------------------------------- the viewer client
\* udpu_client_connect.receive_and_display.  server_ip_address.txt holds at
\* most MaxCandidates lines, each one of Addresses.
MaxCandidates == 3     \* lines of server_ip_address.txt
Addresses == {"192.168.0.2", "192.168.0.3"}
CandidateLists == UNION {[1..n -> Addresses] : n \in 0..MaxCandidates}

\* viewer.candidate: the index in candidate_ips of the candidate of the
\* current iteration of line 98 (0: the loop was not entered);
\* viewer.at: the task is before line 92 ("start"), in the connect of line
\* 103 ("dial"), in the recv of line 108 ("recv"), or has returned;
\* viewer.attempted: the indices whose connection was attempted, in order;
\* viewer.established: those whose connection was established, in order;
\* viewer.did: the latest step; viewer.ended: how the function returned.

TypeOK ==
    /\ connected_clients \subseteq Conns
    /\ controlling_client \in Conns \cup {None}
    /\ streaming_active \in BOOLEAN
    /\ recording_active \in BOOLEAN
    /\ open \in [Conns -> BOOLEAN]
    /\ unread \in [Conns -> BOOLEAN]
    /\ pc \in [Conns -> {"none", "recv"} \cup BcastLabels]
    /\ \A c \in Conns : /\ Len(notes[c]) <= 2
                        /\ \A i \in 1..Len(notes[c]) : notes[c][i] \in Notifications
    /\ Len(sent) <= 2
    /\ \A i \in 1..Len(sent) : /\ sent[i].by \in Conns
                               /\ sent[i].msg \in Notifications
                               /\ sent[i].to \subseteq Conns
    /\ last \in [by : Conns \cup {None},
                op : Commands \cup {"PING", BIN, "resume_stop_stream",
                                    "resume", "unregister", "none"},
                was : (Conns \cup {None}) \X BOOLEAN \X BOOLEAN, conns : SUBSET Conns]
    /\ shutdown \in BOOLEAN
    /\ tracked \in Conns \cup {None}
    /\ consumer \in {"absent", "late", "off", "on"}
    /\ loop_pc \in {"sleep", "gather", "raised", "running", "spun"}
    /\ inflight \subseteq Conns
    /\ frame \in FrameValues
    /\ did \in {"idle", "noframe", "notencoded", "nosend", "sent", "failed",
               "none"}
    /\ latest_frame \in FrameValues
    /\ cam_pc \in {"capture", "backoff", "raised"}
    /\ picam_open \in BOOLEAN
    /\ device_ok \in BOOLEAN
    /\ waited \in 0..BackoffSeconds
    /\ published \in Pixels \cup {"none"}
    /\ health \in {"clean", "error", "retrying", "recovered", "recovered_late"}
    /\ got \in [frame : FrameValues,
               at : {"capture", "backoff", "raised", "none"}]
    /\ \/ recorder = Absent
       \/ /\ recorder.record_active \in BOOLEAN
          /\ recorder.record_dir \in Seconds \cup {CurrentDir}
          /\ recorder.first_frame_timestamp \in Instants \cup {None}
          /\ recorder.rec_pc \in {"recv", "l142", "l144", "ended"}
          /\ recorder.now \in Instants
          /\ recorder.dirs \subseteq Seconds
          /\ recorder.jpgs \subseteq Seconds \X Instants
          /\ recorder.done.msg \in Notifications \cup {BIN, "none"}
          /\ \A i \in 1..Len(recorder.done.steps) : recorder.done.steps[i] \in
                  {"write", "mkdir", "flag_on", "flag_off", "correct", "skip",
                   "encode", "exit0", "exit1", "raised", "delete", "ignore"}
          /\ recorder.done.mkv \in Seconds \cup {NoMkv}
    /\ \/ cipher = Absent
       \/ /\ cipher.server_key \in Keys
          /\ cipher.client_key \in Keys
          /\ cipher.plaintext \in Plaintexts
          /\ \A i \in 1..Len(cipher.packet) : cipher.packet[i] \in 0..255
          /\ \A i \in 1..Len(cipher.data) : cipher.data[i] \in 0..255
          /\ cipher.edit.kind \in {"none", "cut", "length", "bit"}
          /\ cipher.result.ret \in {"uncalled", "bytes", "None", "raised"}
          /\ cipher.feeds \subseteq Conns
          /\ Len(cipher.encrypt_calls) <= MaxCalls
          /\ \A i \in 1..Len(cipher.encrypt_calls) :
                cipher.encrypt_calls[i] \in [by : Conns, drawn : Nonces, nonce : Nonces]
    /\ \/ process = Absent
       \/ /\ process.ended \subseteq MainTasks
          /\ process.exited \in BOOLEAN
          /\ process.killed \subseteq Threads
    /\ \/ viewer = Absent
       \/ /\ viewer.candidate_ips \in CandidateLists
          /\ viewer.candidate \in 0..MaxCandidates
          /\ viewer.at \in {"start", "dial", "recv", "returned"}
          /\ viewer.connected \in BOOLEAN
          /\ viewer.attempted \in UNION {[1..n -> 1..MaxCandidates] : n \in 0..MaxCandidates}
          /\ viewer.established \in UNION {[1..n -> 1..MaxCandidates] : n \in 0..MaxCandidates}
          /\ viewer.did \in {"none", "start", "dialled", "refused", "closed",
                             "skipped", "shown", "quit", "raised"}
          /\ viewer.ended \in {"no", "empty", "closed", "quit", "exhausted"}

InitServer ==
    /\ connected_clients = {}
    /\ controlling_client = None
    /\ streaming_active = FALSE
    /\ recording_active = FALSE
    /\ open = [c \in Conns |-> FALSE]
    /\ unread = [c \in Conns |-> FALSE]
    /\ pc = [c \in Conns |-> "none"]
    /\ notes = [c \in Conns |-> <<>>]
    /\ sent = <<>>
    /\ last = NoStep
    /\ shutdown = FALSE
    /\ loop_pc = "sleep"
    /\ inflight = {}
    /\ frame = NoFrame
    /\ did = "none"
    /\ latest_frame = NoFrame
    \* server_core.py:41-48: the camera was configured, the thread started
    /\ cam_pc = "capture"
    /\ picam_open = TRUE
    /\ device_ok = TRUE
    /\ waited = 0
    /\ published = "none"
    /\ health = "clean"
    /\ got = [frame |-> NoFrame, at |-> "none"]

\* the server alone: no client is followed
Init ==
    /\ InitServer
    /\ tracked = None
    /\ consumer = "absent"
    /\ recorder = Absent
    /\ cipher = Absent
    /\ process = Absent
    /\ viewer = Absent

\* the server and one client that is followed through its connections
InitSync ==
    /\ InitServer
    /\ tracked \in Conns
    /\ consumer = "absent"
    /\ recorder = Absent
    /\ cipher = Absent
    /\ process = Absent
    /\ viewer = Absent

\* ------------------------------------------------------- the consumer
\* client_core.handle_incoming_text: record_active after the client has
\* processed the text; STREAM_STARTED and STREAM_STOPPED match no branch.
HandleIncomingText(flag, text) ==
    CASE text = "RECORD_STARTED" -> "on"
      [] text = "RECORD_STOPPED" -> "off"
      [] OTHER -> flag

\* the texts of the calls that were sent to w, in the order of the calls
RECURSIVE TextsTo(_, _)
TextsTo(w, calls) ==
    IF calls = <<>> THEN <<>>
    ELSE (IF w \in Head(calls).to THEN <<Head(calls).msg>> ELSE <<>>)
         \o TextsTo(w, Tail(calls))

\* client_core.py:54-58: the client processes its messages one after the other
RECURSIVE ProcessTexts(_, _)
ProcessTexts(flag, texts) ==
    IF texts = <<>> THEN flag
    ELSE ProcessTexts(HandleIncomingText(flag, Head(texts)), Tail(texts))

\* What a step of a handler or of a client means for the followed client.  A
\* connection is reliable and ordered, so the client that stays connected
\* processes exactly the notifications sent to it, in the order of the sends;
\* its delivery and processing steps are not modelled, `consumer` is the flag
\* it ends with.  A client starts with record_active False (line 40).
ConsumerStep ==
    /\ tracked' = tracked
    /\ consumer' =
         IF tracked = None
         THEN consumer
         ELSE IF tracked \notin connected_clients' \/ ~open'[tracked]
         THEN "absent"
         ELSE IF consumer = "absent"
         THEN (IF recording_active THEN "late" ELSE "off")
         ELSE ProcessTexts(consumer, TextsTo(tracked, sent'))

\* ------------------------------------------------------- the environment
\* server_main.py:40 and server_core.py:106-111.  A client completes the
\* opening handshake: the server starts handler(), which registers the
\* connection and waits for the first message.
Connect(c) ==
    /\ ~shutdown
    /\ pc[c] = "none"
    /\ c \notin inflight        \* a new connection, no send is addressed to it
    /\ connected_clients' = connected_clients \cup {c}
    /\ open' = [open EXCEPT ![c] = TRUE]
    /\ pc' = [pc EXCEPT ![c] = "recv"]
    /\ sent' = <<>>
    /\ last' = NoStep
    /\ UNCHANGED <<session, unread, notes, shutdown>>
    /\ ConsumerStep
    /\ UNCHANGED <<bcast, camera, elsewhere>>

\* A message of the client reaches the empty receive queue of the connection
\* (an arrival at a queue that holds messages changes nothing modelled here).
Arrive(c) ==
    /\ ~shutdown
    /\ pc[c] # "none"
    /\ open[c]
    /\ ~unread[c]
    /\ unread' = [unread EXCEPT ![c] = TRUE]
    /\ sent' = <<>>
    /\ last' = NoStep
    /\ UNCHANGED <<connected_clients, session, open, pc, notes, shutdown>>
    /\ ConsumerStep
    /\ UNCHANGED <<bcast, camera, elsewhere>>

\* The connection closes (close frame of the peer or loss of the transport):
\* websocket.open becomes false, the handler is still registered.
Close(c) ==
    /\ ~shutdown
    /\ pc[c] # "none"
    /\ open[c]
    /\ open' = [open EXCEPT ![c] = FALSE]
    /\ sent' = <<>>
    /\ last' = NoStep
    /\ UNCHANGED <<connected_clients, session, unread, pc, notes, shutdown>>
    /\ ConsumerStep
    /\ UNCHANGED <<bcast, camera, elsewhere>>

\* ------------------------------------------------------------ broadcast
\* broadcast_text without the test of ws.open
TargetsIgnoringOpen == connected_clients

\* server_core.py:101-103: the connections broadcast_text issues a send to.
Targets == {w \in connected_clients : open[w]}

\* c calls broadcast_text(msg) on line `label` of server_commands.py as the last
\* call of the command.  gather suspends c until every send has completed; with
\* no send issued it returns without suspending and c is back at the receive of
\* line 29, the command complete.  The progress of the single sends is not
\* modelled: c stays suspended until Resume.
Broadcast(c, msg, label) ==
    /\ sent' = <<Call(c, msg, Targets)>>
    /\ IF Targets = {}
       THEN /\ pc' = [pc EXCEPT ![c] = "recv"]
            /\ notes' = [notes EXCEPT ![c] = <<>>]
       ELSE /\ pc' = [pc EXCEPT ![c] = label]
            /\ notes' = [notes EXCEPT ![c] = Append(@, msg)]

\* ------------------------------------------------- the command handler
\* a handler that takes the next message while a broadcast of the previous
\* command is still awaited (each message handled in a task of its own)
ReadWhileSuspended(c, m) ==
    /\ ~shutdown
    /\ pc[c] # "none"
    /\ unread[c]
    /\ m \in Messages
    /\ \E more \in BOOLEAN : unread' = [unread EXCEPT ![c] = more]

\* The handler of c takes the next message m off its connection (line 29);
\* the queue may hold more.
Read(c, m) ==
    /\ ~shutdown
    /\ pc[c] = "recv"
    /\ unread[c]
    /\ m \in Messages
    /\ \E more \in BOOLEAN : unread' = [unread EXCEPT ![c] = more]

\* m is text and parses to the command k (lines 30, 34)
TextCmd(c, m, k) ==
    /\ Read(c, m)
    /\ m # BIN
    /\ Normalize(m) = k
    /\ last' = Step(c, k)

\* a message that ends without a call of broadcast_text
NoBroadcast ==
    /\ sent' = <<>>
    /\ UNCHANGED <<pc, notes>>

\* lines 30-32: binary is logged and skipped
Binary(c, m) ==
    /\ Read(c, m)
    /\ m = BIN
    /\ last' = Step(c, BIN)
    /\ NoBroadcast
    /\ UNCHANGED <<connected_clients, session, open, shutdown>>
    /\ ConsumerStep
    /\ UNCHANGED <<bcast, camera, elsewhere>>

\* START_LINK that claims control for its sender ("No assignment to
\* controlling_client here", line 39, forgotten)
StartLinkClaims(c, m) ==
    /\ TextCmd(c, m, "START_LINK")
    /\ NoBroadcast
    /\ controlling_client' = c
    /\ UNCHANGED <<connected_clients, streaming_active, recording_active,
                   open, shutdown>>
    /\ ConsumerStep
    /\ UNCHANGED <<bcast, camera, elsewhere>>

\* lines 37-39
StartLink(c, m) ==
    /\ TextCmd(c, m, "START_LINK")
    /\ NoBroadcast
    /\ UNCHANGED <<connected_clients, session, open, shutdown>>
    /\ ConsumerStep
    /\ UNCHANGED <<bcast, camera, elsewhere>>

\* lines 92-93
Unknown(c, m) ==
    /\ m \in RawTexts
    /\ Normalize(m) \notin Commands
    /\ TextCmd(c, m, Normalize(m))
    /\ NoBroadcast
    /\ UNCHANGED <<connected_clients, session, open, shutdown>>
    /\ ConsumerStep
    /\ UNCHANGED <<bcast, camera, elsewhere>>

\* STOP_LINK without the test that the sender is the controller
StopLinkFromAnyone(c) == TRUE

\* line 42
StopLinkApplies(c) == c = controlling_client

\* lines 43-45
StopLinkForce ==
    IF streaming_active \/ recording_active
    THEN streaming_active' = FALSE /\ recording_active' = FALSE
    ELSE UNCHANGED <<streaming_active, recording_active>>

\* lines 41-47
StopLink(c, m) ==
    /\ TextCmd(c, m, "STOP_LINK")
    /\ IF StopLinkApplies(c)
       THEN StopLinkForce /\ controlling_client' = None
       ELSE UNCHANGED session
    /\ NoBroadcast
    /\ UNCHANGED <<connected_clients, open, shutdown>>
    /\ ConsumerStep
    /\ UNCHANGED <<bcast, camera, elsewhere>>

\* START_STREAM without the test of line 50
StartStreamAlways == TRUE

\* line 50
StartStreamApplies == ~streaming_active

\* lines 49-54
StartStream(c, m) ==
    /\ TextCmd(c, m, "START_STREAM")
    /\ IF StartStreamApplies
       THEN /\ streaming_active' = TRUE
            /\ controlling_client' = c
            /\ UNCHANGED recording_active
       ELSE UNCHANGED session
    /\ Broadcast(c, "STREAM_STARTED", "l54")
    /\ UNCHANGED <<connected_clients, open, shutdown>>
    /\ ConsumerStep
    /\ UNCHANGED <<bcast, camera, elsewhere>>

\* STOP_STREAM without the test that the sender is the controller
StopStreamFromAnyone(c) == streaming_active \/ recording_active

\* lines 57-59
StopStreamApplies(c) ==
    c = controlling_client /\ (streaming_active \/ recording_active)

\* STOP_STREAM that forgets line 67 and keeps the controller
StopStreamKeepsController ==
    /\ streaming_active' = FALSE
    /\ UNCHANGED controlling_client

\* lines 65-67
StopStreamRelease ==
    /\ streaming_active' = FALSE
    /\ controlling_client' = None

\* STOP_STREAM that stops a recording without the broadcast of line 63
StopStreamSilentRecordStop(c, m) ==
    /\ TextCmd(c, m, "STOP_STREAM")
    /\ IF StopStreamApplies(c)
       THEN /\ recording_active' = FALSE
            /\ StopStreamRelease
            /\ Broadcast(c, "STREAM_STOPPED", "l69")
       ELSE /\ UNCHANGED session
            /\ Broadcast(c, "STREAM_STOPPED", "l69")
    /\ UNCHANGED <<connected_clients, open, shutdown>>
    /\ ConsumerStep
    /\ UNCHANGED <<bcast, camera, elsewhere>>

\* lines 56-69, up to the first suspension
StopStream(c, m) ==
    /\ TextCmd(c, m, "STOP_STREAM")
    /\ IF StopStreamApplies(c)
       THEN IF recording_active
            THEN /\ recording_active' = FALSE
                 /\ IF Targets = {}
                    THEN \* neither broadcast suspends: lines 60-69 are one step
                         /\ StopStreamRelease
                         /\ sent' = <<Call(c, "RECORD_STOPPED", {}),
                                      Call(c, "STREAM_STOPPED", {})>>
                         /\ UNCHANGED <<pc, notes>>
                    ELSE /\ Broadcast(c, "RECORD_STOPPED", "l63")
                         /\ UNCHANGED <<streaming_active, controlling_client>>
            ELSE /\ StopStreamRelease
                 /\ UNCHANGED recording_active
                 /\ Broadcast(c, "STREAM_STOPPED", "l69")
       ELSE /\ UNCHANGED session
            /\ Broadcast(c, "STREAM_STOPPED", "l69")
    /\ UNCHANGED <<connected_clients, open, shutdown>>
    /\ ConsumerStep
    /\ UNCHANGED <<bcast, camera, elsewhere>>

\* lines 65-69, after the broadcast of line 63 has returned
ResumeStopStream(c) ==
    /\ ~shutdown
    /\ pc[c] = "l63"
    /\ last' = Step(c, "resume_stop_stream")
    /\ StopStreamRelease
    /\ Broadcast(c, "STREAM_STOPPED", "l69")
    /\ UNCHANGED <<connected_clients, recording_active, open, unread, shutdown>>
    /\ ConsumerStep
    /\ UNCHANGED <<bcast, camera, elsewhere>>

\* START_RECORD without the test of line 72
StartRecordNeverRejected == FALSE

\* line 72
StartRecordRejected == ~streaming_active

\* START_RECORD accepted from any connection
StartRecordFromAnyone(c) == TRUE

\* line 78
StartRecordApplies(c) == c = controlling_client

\* lines 71-81
StartRecord(c, m) ==
    /\ TextCmd(c, m, "START_RECORD")
    /\ IF StartRecordRejected
       THEN /\ UNCHANGED session
            /\ Broadcast(c, "RECORD_STOPPED", "l74")
       ELSE /\ IF StartRecordApplies(c)
               THEN recording_active' = TRUE
               ELSE UNCHANGED recording_active
            /\ UNCHANGED <<controlling_client, streaming_active>>
            /\ Broadcast(c, "RECORD_STARTED", "l81")
    /\ UNCHANGED <<connected_clients, open, shutdown>>
    /\ ConsumerStep
    /\ UNCHANGED <<bcast, camera, elsewhere>>

\* STOP_RECORD without the test that the sender is the controller
StopRecordFromAnyone(c) == recording_active

\* line 85
StopRecordApplies(c) == c = controlling_client /\ recording_active

\* lines 83-90
StopRecord(c, m) ==
    /\ TextCmd(c, m, "STOP_RECORD")
    /\ IF StopRecordApplies(c)
       THEN recording_active' = FALSE
       ELSE UNCHANGED recording_active
    /\ UNCHANGED <<controlling_client, streaming_active>>
    /\ Broadcast(c, "RECORD_STOPPED", "l90")
    /\ UNCHANGED <<connected_clients, open, shutdown>>
    /\ ConsumerStep
    /\ UNCHANGED <<bcast, camera, elsewhere>>

\* The session variables the suspended handler of c assigns when it runs
\* again: lines 65-67 follow the broadcast of line 63; no assignment follows
\* the broadcasts of lines 54, 69, 74, 81 and 90.
PendingWrites(c) ==
    IF pc[c] = "l63" THEN {"streaming_active", "controlling_client"} ELSE {}

\* The last broadcast of a command has returned: the command is complete and
\* the handler is back at the receive of line 29.
Resume(c) ==
    /\ ~shutdown
    /\ pc[c] \in BcastLabels \ {"l63"}
    /\ pc' = [pc EXCEPT ![c] = "recv"]
    /\ notes' = [notes EXCEPT ![c] = <<>>]
    /\ sent' = <<>>
    /\ last' = Step(c, "resume")
    /\ UNCHANGED <<connected_clients, session, open, unread, shutdown>>
    /\ ConsumerStep
    /\ UNCHANGED <<bcast, camera, elsewhere>>

\* ------------------------------------------------------------ registry
\* unregister_client that stops the session whoever disconnects
UnregisterAnyone(c) == TRUE

\* unregister_client without lines 123-128: the slot is left as it is
UnregisterNobody(c) == FALSE

\* server_core.py:123
UnregisterApplies(c) == c = controlling_client

\* server_core.py:124-126
UnregisterForce ==
    IF streaming_active \/ recording_active
    THEN streaming_active' = FALSE /\ recording_active' = FALSE
    ELSE UNCHANGED <<streaming_active, recording_active>>

\* unregister_client(c), and the end of the handler task of c
Unregister(c) ==
    /\ IF UnregisterApplies(c)
       THEN UnregisterForce /\ controlling_client' = None
       ELSE UNCHANGED session
    /\ connected_clients' = connected_clients \ {c}
    /\ open' = [open EXCEPT ![c] = FALSE]
    /\ unread' = [unread EXCEPT ![c] = FALSE]
    /\ pc' = [pc EXCEPT ![c] = "none"]
    /\ notes' = [notes EXCEPT ![c] = <<>>]
    /\ sent' = <<>>
    /\ last' = Step(c, "unregister")

\* a handler that returns without the finally of server_main.py:43-44
HandlerEndNoFinally(c) ==
    /\ ~shutdown
    /\ pc[c] = "recv"
    /\ ~open[c]
    /\ ~unread[c]
    /\ pc' = [pc EXCEPT ![c] = "none"]
    /\ notes' = [notes EXCEPT ![c] = <<>>]
    /\ sent' = <<>>
    /\ last' = NoStep
    /\ UNCHANGED <<connected_clients, session, open, unread, shutdown>>
    /\ ConsumerStep
    /\ UNCHANGED <<bcast, camera, elsewhere>>

\* The connection is closed and every received message was read: the
\* iteration of line 29 ends (or raises ConnectionClosed, caught on line 95),
\* handle_incoming_messages returns and the finally of handler() unregisters.
HandlerEnd(c) ==
    /\ ~shutdown
    /\ pc[c] = "recv"
    /\ ~open[c]
    /\ ~unread[c]
    /\ Unregister(c)
    /\ UNCHANGED shutdown
    /\ ConsumerStep
    /\ UNCHANGED <<bcast, camera, elsewhere>>

\* SIGINT: the loop is stopped and main() cancels every task.
Shutdown ==
    /\ ~shutdown
    /\ shutdown' = TRUE
    /\ sent' = <<>>
    /\ last' = NoStep
    /\ UNCHANGED <<connected_clients, session, open, unread, pc, notes>>
    /\ ConsumerStep
    /\ UNCHANGED <<bcast, camera, elsewhere>>

\* A cancelled handler gets CancelledError at its suspension point; it is no
\* Exception, so line 95 lets it pass and the finally of handler() unregisters.
Cancelled(c) ==
    /\ shutdown
    /\ pc[c] # "none"
    /\ Unregister(c)
    /\ UNCHANGED shutdown
    /\ ConsumerStep
    /\ UNCHANGED <<bcast, camera, elsewhere>>

\* ------------------------------------------------- the broadcast loop
\* server_camera.py:89-93
get_latest_frame ==
    IF latest_frame # NoFrame THEN Copy(latest_frame) ELSE NoFrame

\* a step of the broadcast task or of the capture thread: no handler runs
NoHandler ==
    /\ sent' = <<>>
    /\ last' = NoStep
    /\ UNCHANGED <<connected_clients, session, open, unread, pc, notes,
                   shutdown, tracked, consumer, elsewhere>>

\* The sleep of the previous iteration is over: the next iteration starts.
\* (config.FPS_LIMIT_ENABLED is False: an iteration that gets past the encoding
\* ends in the sleep of line 89.)
Wake ==
    /\ ~shutdown
    /\ loop_pc = "sleep"

\* a loop that sends whether a stream was started or not
LoopGateOpen == TRUE

\* server_core.py:54
LoopGate == streaming_active

\* server_core.py:74-78: the connections a frame send is issued to
FrameTargets == {w \in connected_clients : open[w]}

\* lines 54-56: not streaming, sleep
TickIdle ==
    /\ Wake
    /\ ~LoopGate
    /\ did' = "idle"
    /\ UNCHANGED <<loop_pc, inflight, frame, camera>>
    /\ NoHandler

\* an iteration that encodes without the test of line 59: imencode raises on
\* None and the exception ends the loop
TickNoFrameRaises ==
    /\ Wake
    /\ LoopGate
    /\ get_latest_frame = NoFrame
    /\ frame' = get_latest_frame
    /\ loop_pc' = "raised"
    /\ did' = "noframe"
    /\ UNCHANGED <<inflight, camera>>
    /\ NoHandler

\* lines 58-61: no frame yet, sleep
TickNoFrame ==
    /\ Wake
    /\ LoopGate
    /\ get_latest_frame = NoFrame
    /\ frame' = get_latest_frame
    /\ did' = "noframe"
    /\ UNCHANGED <<loop_pc, inflight, camera>>
    /\ NoHandler

\* lines 58-69: imencode returns ret False, sleep
TickNotEncoded ==
    /\ Wake
    /\ LoopGate
    /\ get_latest_frame # NoFrame
    /\ frame' = get_latest_frame
    /\ did' = "notencoded"
    /\ UNCHANGED <<loop_pc, inflight, camera>>
    /\ NoHandler

\* lines 58-89: the frame is encoded, but connected_clients is empty or none
\* of its connections is open; a gather of no sends does not suspend, the
\* iteration ends in the sleep of line 89
TickNoSend ==
    /\ Wake
    /\ LoopGate
    /\ get_latest_frame # NoFrame
    /\ frame' = get_latest_frame
    /\ FrameTargets = {}
    /\ did' = "nosend"
    /\ UNCHANGED <<loop_pc, inflight, camera>>
    /\ NoHandler

\* an iteration that starts its sends as tasks and does not wait for them
TickSendNoWait ==
    /\ Wake
    /\ LoopGate
    /\ get_latest_frame # NoFrame
    /\ frame' = get_latest_frame
    /\ FrameTargets # {}
    /\ inflight' = inflight \cup FrameTargets
    /\ did' = "sent"
    /\ UNCHANGED <<loop_pc, camera>>
    /\ NoHandler

\* lines 58-79: a send of the encoded frame is issued to every open
\* connection and the loop waits for all of them in the gather
TickSend ==
    /\ Wake
    /\ LoopGate
    /\ get_latest_frame # NoFrame
    /\ frame' = get_latest_frame
    /\ FrameTargets # {}
    /\ inflight' = FrameTargets
    /\ loop_pc' = "gather"
    /\ did' = "sent"
    /\ UNCHANGED camera
    /\ NoHandler

\* a gather that raises the first exception of a send into the loop
RaiseFirstException == FALSE

\* server_core.py:79: return_exceptions=True
ReturnExceptions == TRUE

\* The send to w completes: it fails with ConnectionClosed if the connection
\* is closed by now, it succeeds otherwise.  The other sends go on.
FrameSendDone(w) ==
    /\ ~shutdown
    /\ w \in inflight
    /\ inflight' = inflight \ {w}
    /\ loop_pc' = IF ~open[w] /\ ~ReturnExceptions /\ loop_pc = "gather"
                  THEN "raised"
                  ELSE loop_pc
    /\ did' = IF open[w] THEN did ELSE "failed"
    /\ UNCHANGED <<frame, camera>>
    /\ NoHandler

\* lines 79-89: every send has completed, the gather returns and the
\* iteration ends in the sleep of line 89
GatherDone ==
    /\ ~shutdown
    /\ loop_pc = "gather"
    /\ inflight = {}
    /\ loop_pc' = "sleep"
    /\ UNCHANGED <<inflight, frame, did, camera>>
    /\ NoHandler

\* ---------------------------------------------------- the capture thread
\* server_camera.py:79-80: the frame just captured is put into the cell
Publish(p) ==
    /\ latest_frame' = [buf |-> "array", pix |-> p]
    /\ published' = p
    /\ health' = CASE health = "error" -> "recovered"
                   [] health = "retrying" -> "recovered_late"
                   [] OTHER -> health

\* capture_array returns a frame when picam2 is a started camera and the
\* device works, and raises otherwise
CanCapture == picam_open /\ device_ok

\* lines 64-81: a frame is captured and published
CaptureOk(p) ==
    /\ cam_pc = "capture"
    /\ CanCapture
    /\ Publish(p)
    /\ UNCHANGED <<cam_pc, picam_open, device_ok, waited, got>>
    /\ UNCHANGED bcast
    /\ NoHandler

\* a capture error that also empties the cell
CaptureFailsClearsFrame ==
    /\ cam_pc = "capture"
    /\ ~CanCapture
    /\ picam_open' = FALSE
    /\ cam_pc' = "backoff"
    /\ waited' = 0
    /\ health' = IF health = "retrying" THEN "retrying" ELSE "error"
    /\ latest_frame' = NoFrame
    /\ UNCHANGED <<device_ok, published, got>>
    /\ UNCHANGED bcast
    /\ NoHandler

\* lines 67-73: capture_array raises; the camera is closed (an exception of
\* close is dropped) and the thread starts to sleep.  The cell keeps its frame.
CaptureFails ==
    /\ cam_pc = "capture"
    /\ ~CanCapture
    /\ picam_open' = FALSE
    /\ cam_pc' = "backoff"
    /\ waited' = 0
    /\ health' = IF health = "retrying" THEN "retrying" ELSE "error"
    /\ UNCHANGED <<latest_frame, device_ok, published, got>>
    /\ UNCHANGED bcast
    /\ NoHandler

\* line 73: a second of the sleep passes
BackoffTick ==
    /\ cam_pc = "backoff"
    /\ waited < BackoffSeconds
    /\ waited' = waited + 1
    /\ UNCHANGED <<latest_frame, cam_pc, picam_open, device_ok, published, health, got>>
    /\ UNCHANGED bcast
    /\ NoHandler

\* lines 74-78: the sleep is over, configure_camera returns a started camera
ReconfigureOk ==
    /\ cam_pc = "backoff"
    /\ waited = BackoffSeconds
    /\ device_ok
    /\ picam_open' = TRUE
    /\ cam_pc' = "capture"
    /\ waited' = 0
    /\ UNCHANGED <<latest_frame, device_ok, published, health, got>>
    /\ UNCHANGED bcast
    /\ NoHandler

\* a reconfiguration whose exception is not caught and ends the thread
ReconfigureFailsRaises ==
    /\ cam_pc = "backoff"
    /\ waited = BackoffSeconds
    /\ ~device_ok
    /\ cam_pc' = "raised"
    /\ waited' = 0
    /\ UNCHANGED <<latest_frame, picam_open, device_ok, published, got>>
    /\ health' = "retrying"
    /\ UNCHANGED bcast
    /\ NoHandler

\* lines 74-77: the sleep is over, configure_camera raises; picam2 stays the
\* closed camera and the loop goes on with the capture of line 67
ReconfigureFails ==
    /\ cam_pc = "backoff"
    /\ waited = BackoffSeconds
    /\ ~device_ok
    /\ cam_pc' = "capture"
    /\ waited' = 0
    /\ UNCHANGED <<latest_frame, picam_open, device_ok, published, got>>
    /\ health' = "retrying"
    /\ UNCHANGED bcast
    /\ NoHandler

\* the device stops working
DeviceFault ==
    /\ device_ok
    /\ device_ok' = FALSE
    /\ UNCHANGED <<latest_frame, cam_pc, picam_open, waited, published, health, got>>
    /\ UNCHANGED bcast
    /\ NoHandler

\* the device works again
DeviceRecovers ==
    /\ ~device_ok
    /\ device_ok' = TRUE
    /\ UNCHANGED <<latest_frame, cam_pc, picam_open, waited, published, health, got>>
    /\ UNCHANGED bcast
    /\ NoHandler

\* a call of get_latest_frame returns
GetLatestFrame ==
    /\ got' = [frame |-> get_latest_frame, at |-> cam_pc]
    /\ UNCHANGED <<latest_frame, cam_pc, picam_open, device_ok, waited, published, health>>
    /\ UNCHANGED bcast
    /\ NoHandler

\* the steps of the capture thread
CaptureThread ==
    \/ \E p \in Pixels : CaptureOk(p)
    \/ CaptureFails
    \/ BackoffTick
    \/ ReconfigureOk
    \/ ReconfigureFails

Next ==
    \/ \E c \in Conns : Connect(c)
    \/ \E c \in Conns : Arrive(c)
    \/ \E c \in Conns : Close(c)
    \/ \E c \in Conns, m \in Messages : Binary(c, m)
    \/ \E c \in Conns, m \in Messages : StartLink(c, m)
    \/ \E c \in Conns, m \in Messages : Unknown(c, m)
    \/ \E c \in Conns, m \in Messages : StopLink(c, m)
    \/ \E c \in Conns, m \in Messages : StartStream(c, m)
    \/ \E c \in Conns, m \in Messages : StopStream(c, m)
    \/ \E c \in Conns, m \in Messages : StartRecord(c, m)
    \/ \E c \in Conns, m \in Messages : StopRecord(c, m)
    \/ \E c \in Conns : ResumeStopStream(c)
    \/ \E c \in Conns : Resume(c)
    \/ \E c \in Conns : HandlerEnd(c)
    \/ \E c \in Conns : Cancelled(c)
    \/ Shutdown

Spec == Init /\ [][Next]_vars

\* The server with the broadcast task and a working camera.  The loop reads
\* streaming_active, connected_clients and websocket.open: the clients of this
\* specification connect, close, and send START_STREAM and STOP_STREAM.
NextLoop ==
    \/ \E c \in Conns : Connect(c)
    \/ \E c \in Conns : Arrive(c)
    \/ \E c \in Conns : Close(c)
    \/ \E c \in Conns, m \in Messages : StartStream(c, m)
    \/ \E c \in Conns, m \in Messages : StopStream(c, m)
    \/ \E c \in Conns : Resume(c)
    \/ \E c \in Conns : HandlerEnd(c)
    \/ TickIdle
    \/ TickNoFrame
    \/ TickNotEncoded
    \/ TickNoSend
    \/ TickSend
    \/ \E w \in Conns : FrameSendDone(w)
    \/ GatherDone
    \/ \E p \in Pixels : CaptureOk(p)

SpecLoop == Init /\ [][NextLoop]_vars

\* The capture thread with a device that fails and recovers, and a caller of
\* get_latest_frame; no client connects.  The thread is a thread of the
\* operating system: a step it can take, it takes.
NextCamera ==
    \/ \E p \in Pixels : CaptureOk(p)
    \/ CaptureFails
    \/ BackoffTick
    \/ ReconfigureOk
    \/ ReconfigureFails
    \/ DeviceFault
    \/ DeviceRecovers
    \/ GetLatestFrame

SpecCamera == Init /\ [][NextCamera]_vars /\ WF_vars(CaptureThread)

\* the same server, seen together with the record_active of one client
SpecSync == InitSync /\ [][Next]_vars

\* --------------------------------------- the loop with the FPS limit
\* config.FPS_LIMIT_ENABLED is True: an iteration that gets past the encoding
\* ends in lines 82-86, which sleep only when the iteration took less than
\* 1 / FPS_LIMIT.  late: it took that long or longer (sleep_time <= 0).
\* The task then goes on with the next iteration: loop_pc is "running" when
\* the iteration behind it has been suspended in its gather, "spun" when it
\* has not been suspended anywhere.  No other task of the event loop runs
\* before the broadcast task is suspended again.

\* lines 53-86, from the top of the loop to the first await that suspends
IterationLimited(ret, late) ==
    /\ ~shutdown
    /\ loop_pc \in {"sleep", "running", "spun"}
    /\ IF ~LoopGate
       THEN /\ did' = "idle"                                 \* lines 54-56
            /\ loop_pc' = "sleep"
            /\ UNCHANGED <<inflight, frame>>
       ELSE /\ frame' = get_latest_frame
            /\ IF get_latest_frame = NoFrame
               THEN /\ did' = "noframe"                      \* lines 59-61
                    /\ loop_pc' = "sleep"
                    /\ UNCHANGED inflight
               ELSE IF ~ret
               THEN /\ did' = "notencoded"                   \* lines 67-69
                    /\ loop_pc' = "sleep"
                    /\ UNCHANGED inflight
               ELSE IF FrameTargets # {}
               THEN /\ did' = "sent"                         \* lines 74-79
                    /\ inflight' = FrameTargets
                    /\ loop_pc' = "gather"
               ELSE /\ did' = "nosend"                       \* lines 74-86
                    /\ loop_pc' = IF late THEN "spun" ELSE "sleep"
                    /\ UNCHANGED inflight
    /\ UNCHANGED camera
    /\ NoHandler

\* lines 79-86: every send has completed, the gather returns
GatherDoneLimited(late) ==
    /\ ~shutdown
    /\ loop_pc = "gather"
    /\ inflight = {}
    /\ loop_pc' = IF late THEN "running" ELSE "sleep"
    /\ UNCHANGED <<inflight, frame, did, camera>>
    /\ NoHandler

\* The server of SpecLoop with the limit enabled.  The handlers and the
\* sends are tasks of the event loop: they run while the broadcast task is
\* suspended.  The capture thread runs at any time.
NextLimited ==
    \/ \E c \in Conns : loop_pc \in {"sleep", "gather"} /\ Connect(c)
    \/ \E c \in Conns : loop_pc \in {"sleep", "gather"} /\ Arrive(c)
    \/ \E c \in Conns : loop_pc \in {"sleep", "gather"} /\ Close(c)
    \/ \E c \in Conns, m \in Messages :
          loop_pc \in {"sleep", "gather"} /\ StartStream(c, m)
    \/ \E c \in Conns, m \in Messages :
          loop_pc \in {"sleep", "gather"} /\ StopStream(c, m)
    \/ \E c \in Conns : loop_pc \in {"sleep", "gather"} /\ Resume(c)
    \/ \E c \in Conns : loop_pc \in {"sleep", "gather"} /\ HandlerEnd(c)
    \/ \E w \in Conns : loop_pc \in {"sleep", "gather"} /\ FrameSendDone(w)
    \/ \E ret \in BOOLEAN, late \in BOOLEAN : IterationLimited(ret, late)
    \/ \E late \in BOOLEAN : GatherDoneLimited(late)
    \/ \E p \in Pixels : CaptureOk(p)

SpecLimited == Init /\ [][NextLimited]_vars

\* ------------------------------------------------- fair scheduling
\* The event loop runs every task that is ready: a handler whose broadcast
\* has returned continues, a handler at the receive of line 29 takes the next
\* message of its queue, or returns when the connection is closed and the
\* queue is empty, and a cancelled handler gets its CancelledError.
HandlerStep(c) ==
    \/ \E m \in Messages :
          \/ Binary(c, m) \/ StartLink(c, m) \/ Unknown(c, m)
          \/ StopLink(c, m) \/ StartStream(c, m) \/ StopStream(c, m)
          \/ StartRecord(c, m) \/ StopRecord(c, m)
    \/ ResumeStopStream(c)
    \/ Resume(c)
    \/ HandlerEnd(c)
    \/ Cancelled(c)

\* The receive queue of a connection is finite: of the messages the handler
\* reads, one is the last of the queue.
LastMessage(c) == HandlerStep(c) /\ unread[c] /\ ~unread'[c]

SpecFair ==
    /\ Init
    /\ [][Next]_vars
    /\ \A c \in Conns : WF_vars(HandlerStep(c)) /\ SF_vars(LastMessage(c))

\* ------------------------------------------------------------- shutdown
\* server_main.py:58-84.  Shutdown is the signal handler and lines 76-79:
\* the loop is stopped, run_until_complete of line 73 raises, every task is
\* cancelled.  Line 81 runs the loop until each task has ended: a handler by
\* Cancelled, the two tasks of main by TaskCancelled.  Then main returns.

OnlyProcess ==
    /\ sent' = <<>>
    /\ last' = NoStep
    /\ UNCHANGED <<connected_clients, session, unread, pc, notes, shutdown,
                   tracked, consumer, bcast, camera, recorder, cipher, viewer>>

\* The task gets CancelledError at the await it is suspended in (lines 55,
\* 60, 68, 79, 89 of server_core.py; line 56 of server_main.py) and ends.
\* With run_ws_server the `async with` of line 54 exits: websockets closes
\* the server, and the connections it still holds get a close frame.
TaskCancelled(t, held) ==
    /\ shutdown
    /\ t \in MainTasks \ process.ended
    /\ held \subseteq {c \in Conns : open[c]}
    /\ t = "broadcast_loop" => held = {}
    /\ open' = [c \in Conns |-> open[c] /\ c \notin held]
    /\ process' = [process EXCEPT !.ended = @ \cup {t}]
    /\ OnlyProcess

\* server_core.py:47: the capture thread is a daemon thread, and main() has
\* no handle of it: when the interpreter exits the thread is where it is
DaemonThreads == IF cam_pc = "raised" THEN {} ELSE Threads

\* lines 81-84: the gather of line 81 has returned, the loop is closed, main
\* returns and the interpreter exits
ProcessExit ==
    /\ shutdown
    /\ ~process.exited
    /\ process.ended = MainTasks
    /\ \A c \in Conns : pc[c] = "none"
    /\ process' = [process EXCEPT !.exited = TRUE, !.killed = DaemonThreads]
    /\ UNCHANGED open
    /\ OnlyProcess

\* The server with its clients and the capture thread, up to the exit of the
\* process.
InitShutdown ==
    /\ InitServer
    /\ tracked = None
    /\ consumer = "absent"
    /\ recorder = Absent
    /\ cipher = Absent
    /\ process = [ended |-> {}, exited |-> FALSE, killed |-> {}]
    /\ viewer = Absent

NextShutdown ==
    \/ \E c \in Conns : Connect(c)
    \/ \E c \in Conns : Arrive(c)
    \/ \E c \in Conns : Close(c)
    \/ \E c \in Conns, m \in Messages : StartStream(c, m)
    \/ \E c \in Conns, m \in Messages : StopStream(c, m)
    \/ \E c \in Conns : Resume(c)
    \/ \E c \in Conns : HandlerEnd(c)
    \/ Shutdown
    \/ \E c \in Conns : Cancelled(c)
    \/ \E t \in MainTasks, held \in SUBSET Conns : TaskCancelled(t, held)
    \/ ProcessExit
    \* the capture thread runs as long as the process does
    \/ \E p \in Pixels : ~process.exited /\ CaptureOk(p)

SpecShutdown == InitShutdown /\ [][NextShutdown]_vars

\* ------------------------------------------------- the recording client
\* client_core.jetson_client_task handles one message after the other: the
\* `async for` of line 56 awaits the handler of a message before it takes the
\* next one.  A handler suspends only inside finalize_recording, while the
\* encoder is started and while it runs.  Files are written and removed as
\* the calls ask as long as the directory they name exists.

\* a step of the client or of its clock: the server does nothing
NoServer ==
    UNCHANGED <<connected_clients, session, open, unread, pc, notes, sent,
                last, shutdown, tracked, consumer, bcast, camera, cipher,
                process, viewer>>

\* record_dir.glob("*.jpg")
Glob(dir) == {f \in recorder.jpgs : f[1] = dir}

Did(msg, steps, mkv) == [msg |-> msg, steps |-> steps, mkv |-> mkv]

\* The clock moves on.  Between two messages nothing is left of the handling
\* of the earlier one.
Tick ==
    /\ recorder.now < MaxClock
    /\ recorder' = [recorder EXCEPT
          !.now = @ + 1,
          !.done = IF recorder.rec_pc = "recv" THEN Nothing ELSE @]
    /\ NoServer

FrameWrittenUnchecked ==
    /\ recorder.rec_pc = "recv"
    /\ ~recorder.record_active
    /\ recorder' = [recorder EXCEPT
          !.jpgs = @ \cup {JpgPath(recorder.record_dir, recorder.now)},
          !.done = Did(BIN, <<"write">>, NoMkv)]
    /\ NoServer
\* lines 67-68: a frame that arrives while record_active is False is dropped
FrameDropped ==
    /\ recorder.rec_pc = "recv"
    /\ ~recorder.record_active
    /\ recorder' = [recorder EXCEPT !.done = Did(BIN, <<>>, NoMkv)]
    /\ NoServer

\* lines 70-71, at the time time_time
Latch(ts, time_time) == IF ts = None THEN time_time ELSE ts

\* lines 70-81: the frame is written under the name of the instant, unless
\* the open of line 78 fails (the directory is gone): the error is printed
FrameStored ==
    /\ recorder.rec_pc = "recv"
    /\ recorder.record_active
    /\ LET written == recorder.record_dir \in recorder.dirs IN
       recorder' = [recorder EXCEPT
          !.first_frame_timestamp = Latch(@, recorder.now),
          !.jpgs = IF written
                   THEN @ \cup {JpgPath(recorder.record_dir, recorder.now)}
                   ELSE @,
          !.done = Did(BIN, IF written THEN <<"write">> ELSE <<>>, NoMkv)]
    /\ NoServer

\* a RECORD_STARTED handled in a task of its own, while the handler of the
\* message before it may be suspended
RecordStartedWhileAwaited ==
    /\ LET dt_str == Second(recorder.now) IN
       recorder' = [recorder EXCEPT
          !.record_dir = RecordTemp(dt_str),
          !.dirs = @ \cup {RecordTemp(dt_str)},
          !.record_active = TRUE,
          !.first_frame_timestamp = None,
          !.done = Did("RECORD_STARTED", <<"mkdir", "flag_on">>, NoMkv)]
    /\ NoServer

\* lines 89-99: RECORD_STARTED, whatever record_active is
RecordStarted ==
    /\ recorder.rec_pc = "recv"
    /\ LET dt_str == Second(recorder.now) IN
       recorder' = [recorder EXCEPT
          !.record_dir = RecordTemp(dt_str),
          !.dirs = @ \cup {RecordTemp(dt_str)},      \* mkdir(exist_ok=True)
          !.record_active = TRUE,
          !.first_frame_timestamp = None,
          !.done = Did("RECORD_STARTED", <<"mkdir", "flag_on">>, NoMkv)]
    /\ NoServer

\* lines 112-113
RecordStoppedIgnored ==
    /\ recorder.rec_pc = "recv"
    /\ ~recorder.record_active
    /\ recorder' = [recorder EXCEPT
          !.done = Did("RECORD_STOPPED", <<"ignore">>, NoMkv)]
    /\ NoServer

\* remove_record_dir (lines 167-173): shutil.rmtree removes the folder and
\* what is in it; a folder that is not there is an error that is printed
RemoveRecordDir(r, folder) ==
    [r EXCEPT !.dirs = @ \ {folder},
              !.jpgs = {f \in @ : f[1] # folder}]

\* lines 108-111, after finalize_recording has returned
AfterFinalizeKeepsFailed(r, steps, mkv) ==
    IF steps[Len(steps)] = "exit1"
    THEN [r EXCEPT !.done = Did("RECORD_STOPPED", steps, mkv),
                   !.first_frame_timestamp = None,
                   !.record_dir = CurrentDir,
                   !.rec_pc = "recv"]
    ELSE [RemoveRecordDir(r, r.record_dir) EXCEPT
             !.done = Did("RECORD_STOPPED", Append(steps, "delete"), mkv),
             !.first_frame_timestamp = None,
             !.record_dir = CurrentDir,
             !.rec_pc = "recv"]
AfterFinalize(r, steps, mkv) ==
    [RemoveRecordDir(r, r.record_dir) EXCEPT
        !.done = Did("RECORD_STOPPED", Append(steps, "delete"), mkv),
        !.first_frame_timestamp = None,
        !.record_dir = CurrentDir,
        !.rec_pc = "recv"]

\* lines 102-111 with lines 119-122: no frame is in the directory, and
\* finalize_recording returns without suspending
RecordStoppedNoFrames ==
    /\ recorder.rec_pc = "recv"
    /\ recorder.record_active
    /\ Glob(recorder.record_dir) = {}
    /\ recorder' = AfterFinalize([recorder EXCEPT !.record_active = FALSE],
                                 <<"flag_off", "correct", "skip">>, NoMkv)
    /\ NoServer

\* lines 124-125: frames, but no timestamp of a first frame
Fallback(ts, time_time) == IF ts = None THEN time_time ELSE ts
\* lines 127-129: the name of the container
FinalMkv(ts) == VideoName(ts)

\* lines 102-107 with lines 119-143: the flag is cleared, the frames are
\* corrected, the encoder is started on them and the handler suspends
EncodeAlways == TRUE
EncodeIfFrames == Glob(recorder.record_dir) # {}

RecordStoppedEncode ==
    /\ recorder.rec_pc = "recv"
    /\ recorder.record_active
    /\ EncodeIfFrames
    /\ LET ts == Fallback(recorder.first_frame_timestamp, recorder.now) IN
       recorder' = [recorder EXCEPT
          !.record_active = FALSE,
          !.first_frame_timestamp = ts,
          !.done = Did("RECORD_STOPPED", <<"flag_off", "correct", "encode">>,
                       FinalMkv(ts)),
          !.rec_pc = "l142"]
    /\ NoServer

\* line 142 returns the process
SpawnDone ==
    /\ recorder.rec_pc = "l142"
    /\ recorder' = [recorder EXCEPT !.rec_pc = "l144"]
    /\ NoServer

\* line 142 raises (no ffmpeg to execute): nothing catches it before line 61,
\* and the task ends
SpawnRaises ==
    /\ recorder.rec_pc = "l142"
    /\ recorder' = [recorder EXCEPT
          !.rec_pc = "ended",
          !.done = Did(@.msg, Append(@.steps, "raised"), @.mkv)]
    /\ NoServer

\* lines 144-148 and 108-111: the encoder exits with status 0 or another
EncoderExit(returncode) ==
    /\ recorder.rec_pc = "l144"
    /\ recorder' = AfterFinalize(recorder,
          Append(recorder.done.steps, IF returncode = 0 THEN "exit0" ELSE "exit1"),
          recorder.done.mkv)
    /\ NoServer

\* line 89, 101: any other text is printed, nothing more
OtherText(text) ==
    /\ recorder.rec_pc = "recv"
    /\ text \notin {"RECORD_STARTED", "RECORD_STOPPED"}
    /\ recorder' = [recorder EXCEPT !.done = Did(text, <<>>, NoMkv)]
    /\ NoServer

\* The recording client alone, with what the server may send it, in any order.
InitRec ==
    /\ InitServer
    /\ tracked = None
    /\ consumer = "absent"
    \* client_core.py:39-42, an empty videos directory, the clock at its start
    /\ recorder = [record_active |-> FALSE, record_dir |-> CurrentDir,
                   first_frame_timestamp |-> None, rec_pc |-> "recv",
                   now |-> 1, dirs |-> {}, jpgs |-> {}, done |-> Nothing]
    /\ cipher = Absent
    /\ process = Absent
    /\ viewer = Absent

NextRecorder ==
    \/ Tick
    \/ FrameDropped
    \/ FrameStored
    \/ RecordStarted
    \/ RecordStoppedIgnored
    \/ RecordStoppedNoFrames
    \/ RecordStoppedEncode
    \/ SpawnDone
    \/ SpawnRaises
    \/ \E returncode \in {0, 1} : EncoderExit(returncode)
    \/ \E text \in Notifications : OtherText(text)

SpecRecorder == InitRec /\ [][NextRecorder]_vars

\* --------------------------------------------- the encrypted frame packets
\* a step of the encrypted server, its client or the channel between them
OnlyCipher ==
    UNCHANGED <<connected_clients, session, open, unread, pc, notes, sent,
                last, shutdown, tracked, consumer, bcast, recorder, process,
                viewer>>

\* encrypt_data(m, DATA_KEY) on the server; the packet reaches the client,
\* which has dealt with the packet before
Encrypt(m, nonce) ==
    /\ cipher.packet = <<>> \/ cipher.result # Uncalled
    /\ \E chunk \in {encrypt_data(m, cipher.server_key, nonce)} :
          cipher' = [cipher EXCEPT !.plaintext = m, !.packet = chunk,
                                   !.data = chunk, !.edit = Unedited,
                                   !.result = Uncalled]
    /\ UNCHANGED camera
    /\ OnlyCipher

Untouched ==
    cipher.edit = Unedited /\ cipher.result = Uncalled /\ cipher.packet # <<>>
Edited(b, kind, at, to) ==
    /\ cipher' = [cipher EXCEPT !.data = b,
                                !.edit = [kind |-> kind, at |-> at, to |-> to]]
    /\ UNCHANGED camera
    /\ OnlyCipher

\* the client is handed the first n bytes only
Cut(n) ==
    /\ Untouched
    /\ n < Len(cipher.data)
    /\ Edited(Slice(cipher.data, 0, n), "cut", n, 0)

\* byte i of the length field arrives as v (the last byte of the field stays
\* below 128: the declared length is a number the model can hold)
SetLength(i, v) ==
    /\ Untouched
    /\ i = 4 => v < 128
    /\ cipher.data[i] # v
    /\ Edited([cipher.data EXCEPT ![i] = v], "length", i, v)

\* one bit of the nonce, the tag or the ciphertext arrives flipped
RECURSIVE Bit(_)
Bit(k) == IF k = 0 THEN 1 ELSE 2 * Bit(k - 1)
FlipBit(i, k) ==
    /\ Untouched
    /\ i > 4
    /\ i <= Len(cipher.data)
    /\ Edited([cipher.data EXCEPT ![i] = Xor(@, Bit(k))], "bit", i, k)

\* decrypt_data(data) on the client
Decrypt ==
    /\ cipher.result = Uncalled
    /\ cipher' = [cipher EXCEPT
          !.result = decrypt_data(cipher.data, cipher.client_key)]
    /\ UNCHANGED camera
    /\ OnlyCipher

\* encrypt_data and decrypt_data on their own: the two key files hold any of
\* the keys, plaintexts and nonces are any, the channel edits a packet once.
InitCipher ==
    /\ InitServer
    /\ tracked = None
    /\ consumer = "absent"
    /\ recorder = Absent
    /\ process = Absent
    /\ viewer = Absent
    /\ \E server_key \in Keys, client_key \in Keys :
          cipher = NoTraffic(server_key, client_key)

NextCipher ==
    \/ \E m \in Plaintexts, nonce \in Nonces : Encrypt(m, nonce)
    \/ \E n \in 0..(4 + 12 + 16 + MaxLen) : Cut(n)
    \/ \E i \in 1..4, v \in {0, 1, 3, 127, 255} : SetLength(i, v)
    \/ \E i \in 1..(4 + 12 + 16 + MaxLen), k \in 0..7 : FlipBit(i, k)
    \/ Decrypt

SpecCipher == InitCipher /\ [][NextCipher]_vars

\* ------------------------------------------------- the viewer client
OnlyViewer ==
    UNCHANGED <<connected_clients, session, open, unread, pc, notes, sent,
                last, shutdown, tracked, consumer, bcast, camera, recorder,
                cipher, process>>

\* line 98: the iteration of candidate i begins, or the loop is over and
\* lines 129-133 end the function
Iterate(v, i) ==
    IF i <= Len(v.candidate_ips)
    THEN [v EXCEPT !.candidate = i, !.at = "dial",
                   !.attempted = Append(@, i)]
    ELSE [v EXCEPT !.at = "returned", !.ended = "exhausted"]

\* lines 92-103
ViewerStart ==
    /\ viewer.at = "start"
    /\ viewer' = IF viewer.candidate_ips = <<>>
                 THEN [viewer EXCEPT !.at = "returned", !.ended = "empty",
                                     !.did = "start"]
                 ELSE [Iterate(viewer, 1) EXCEPT !.did = "start"]
    /\ OnlyViewer

\* lines 103-108: the connection is established
DialOk ==
    /\ viewer.at = "dial"
    /\ viewer' = [viewer EXCEPT !.at = "recv", !.connected = TRUE,
                                !.established = Append(@, viewer.candidate),
                                !.did = "dialled"]
    /\ OnlyViewer

\* line 103 raises (the server is not there, or refuses): the except clause
\* of lines 125-127 and its continue
DialFails ==
    /\ viewer.at = "dial"
    /\ viewer' = [Iterate(viewer, viewer.candidate + 1) EXCEPT
                     !.did = "refused"]
    /\ OnlyViewer

\* lines 108-111 and 124: recv raises ConnectionClosed
RecvClosed ==
    /\ viewer.at = "recv"
    /\ viewer' = [viewer EXCEPT !.at = "returned", !.ended = "closed",
                                !.did = "closed"]
    /\ OnlyViewer

\* lines 108-127: recv returns data; q: the key waitKey reports is q
RecvData(data, q) ==
    /\ viewer.at = "recv"
    /\ viewer' =
          CASE data = "text" ->                    \* line 115 raises TypeError
                  [Iterate(viewer, viewer.candidate + 1) EXCEPT
                      !.did = "raised"]
            [] data = "junk" ->                    \* lines 117-118
                  [viewer EXCEPT !.did = "skipped"]
            [] data = "jpeg" /\ ~q ->              \* lines 120-122
                  [viewer EXCEPT !.did = "shown"]
            [] data = "jpeg" /\ q ->               \* lines 122-124
                  [viewer EXCEPT !.at = "returned", !.ended = "quit",
                                 !.did = "quit"]
    /\ OnlyViewer

\* The viewer with any list of candidates; each server is there or not, and
\* sends what it sends.
InitViewer ==
    /\ InitServer
    /\ tracked = None
    /\ consumer = "absent"
    /\ recorder = Absent
    /\ cipher = Absent
    /\ process = Absent
    /\ \E ips \in CandidateLists :
          viewer = [candidate_ips |-> ips, candidate |-> 0, at |-> "start",
                    connected |-> FALSE, attempted |-> <<>>,
                    established |-> <<>>, did |-> "none", ended |-> "no"]

NextViewer ==
    \/ ViewerStart
    \/ DialOk
    \/ DialFails
    \/ RecvClosed
    \* the server of a candidate sends a JPEG, bytes that are no image, or a
    \* text message (a str, which numpy.frombuffer does not take)
    \/ \E data \in {"jpeg", "junk", "text"}, q \in BOOLEAN : RecvData(data, q)

SpecViewer == InitViewer /\ [][NextViewer]_vars

\* ------------------------------------------------- the encrypted server
\* server_udp_connect.stream_encrypted_feed, one task per connection: each
\* iteration takes the latest frame, encrypts its JPEG and sends the packet.
\* An iteration that finds no frame sleeps and changes nothing.

\* cv2.imencode('.jpg', frame) and tobytes(): a file that starts with FF D8
\* (what follows the first byte stands for the picture)
Jpeg(f) == <<255, IF f.pix = "dark" THEN 216 ELSE 255>>

\* lines 82-83
FeedConnect(c) ==
    /\ c \notin cipher.feeds
    /\ cipher' = [cipher EXCEPT !.feeds = @ \cup {c}]
    /\ UNCHANGED camera
    /\ OnlyCipher

\* lines 87-96 with encrypt_jpg: get_random_bytes(12) returns nonce
FeedSend(c, nonce) ==
    /\ c \in cipher.feeds
    /\ Len(cipher.encrypt_calls) < MaxCalls
    /\ get_latest_frame # NoFrame
    /\ \E jpg \in {Jpeg(get_latest_frame)} :
       \E chunk \in {encrypt_data(jpg, cipher.server_key, nonce)} :
          cipher' = [cipher EXCEPT
              !.plaintext = jpg, !.packet = chunk, !.data = chunk,
              !.edit = Unedited, !.result = Uncalled,
              !.encrypt_calls = Append(@,
                  [by |-> c, drawn |-> nonce, nonce |-> NonceIn(chunk)])]
    /\ UNCHANGED camera
    /\ OnlyCipher

\* lines 97-103: the connection is closed, the task ends
FeedClosed(c) ==
    /\ c \in cipher.feeds
    /\ cipher' = [cipher EXCEPT !.feeds = @ \ {c}]
    /\ UNCHANGED camera
    /\ OnlyCipher

\* The encrypted server with a working camera; server and client hold the
\* same key file.
InitFeed ==
    /\ InitServer
    /\ tracked = None
    /\ consumer = "absent"
    /\ recorder = Absent
    /\ cipher = NoTraffic(KeyOf(3), KeyOf(3))
    /\ process = Absent
    /\ viewer = Absent

NextFeed ==
    \/ \E c \in Conns : FeedConnect(c)
    \/ \E c \in Conns, nonce \in Nonces : FeedSend(c, nonce)
    \/ \E c \in Conns : FeedClosed(c)
    \/ \E p \in Pixels : CaptureOk(p)

SpecFeed == InitFeed /\ [][NextFeed]_vars

\* ================================================================ claims
WasController == last.was[1]
WasStreaming == last.was[2]
WasRecording == last.was[3]

\* the open registered connections
OpenRegistered == {w \in Conns : w \in connected_clients /\ open[w]}

\* the latest step was the handler of last.by handling the command op
Handled(op) == last.op = op

\* C1: in every reachable state, under any interleaving of commands, connects
\* and disconnects, recording_active implies streaming_active.
C1_RecordingImpliesStreaming == recording_active => streaming_active

\* a recording session of one client while another one is connected
C1_Witness ==
    /\ recording_active
    /\ streaming_active
    /\ Cardinality(connected_clients) >= 2

\* C2: first claimer wins.  A START_STREAM of a connection that is not the
\* controller never replaces a controller that is set; the sender becomes
\* controller only when no controller is set; and the slot changes hands only
\* after it was released (it never goes from one connection to another).
C2_FirstClaimerWins ==
    [][ /\ controlling_client' # controlling_client
            => (controlling_client = None \/ controlling_client' = None)
        /\ \A c \in Conns, m \in Messages :
             StartStream(c, m) =>
                \/ controlling_client' = controlling_client
                \/ controlling_client = None /\ controlling_client' = c ]_vars

\* a START_STREAM of a non-controller was handled while a controller was set
C2_Witness ==
    /\ Handled("START_STREAM")
    /\ WasController \notin {None, last.by}
    /\ controlling_client = WasController

\* C3 (scenario A): with no stream active, a START_STREAM of a connected
\* client sets streaming_active, makes the sender the controller and issues a
\* send of STREAM_STARTED to every open registered connection.
C3_ScenarioA ==
    (Handled("START_STREAM") /\ ~WasStreaming) =>
        /\ streaming_active
        /\ controlling_client = last.by
        /\ sent = <<Call(last.by, "STREAM_STARTED", OpenRegistered)>>

\* the stream was started and two connections were notified
C3_Witness ==
    /\ Handled("START_STREAM")
    /\ ~WasStreaming
    /\ streaming_active
    /\ Len(sent) = 1
    /\ Cardinality(sent[1].to) >= 2

Idle == <<None, FALSE, FALSE>>

\* C4 (scenario B): while connection A is controller and streaming, recording
\* or not, a STOP_STREAM of another connection B changes none of
\* streaming_active, recording_active and controlling_client, and
\* STREAM_STOPPED is broadcast all the same.
C4_ScenarioB ==
    (Handled("STOP_STREAM") /\ WasStreaming /\ WasController \notin {None, last.by}) =>
        /\ session = last.was
        /\ sent = <<Call(last.by, "STREAM_STOPPED", OpenRegistered)>>

\* B's STOP_STREAM was handled during A's recording, and B got STREAM_STOPPED
C4_Witness ==
    /\ Handled("STOP_STREAM")
    /\ WasStreaming
    /\ WasRecording
    /\ WasController \notin {None, last.by}
    /\ Len(sent) = 1
    /\ last.by \in sent[1].to

\* C5 (scenario C): when the controller sends STOP_STREAM during a recording,
\* RECORD_STOPPED is broadcast before STREAM_STOPPED (alone, as long as the
\* handler waits on line 63), STREAM_STOPPED follows with both flags false and
\* the slot empty; and until the command is complete the sender is not the
\* controller again and the session is idle unless another connection has
\* claimed it.
C5_ScenarioC ==
    /\ (Handled("STOP_STREAM") /\ WasController = last.by /\ WasRecording) =>
          /\ ~recording_active
          /\ IF OpenRegistered = {}
             THEN /\ sent = <<Call(last.by, "RECORD_STOPPED", {}),
                              Call(last.by, "STREAM_STOPPED", {})>>
                  /\ session = Idle
                  /\ pc[last.by] = "recv"
             ELSE /\ sent = <<Call(last.by, "RECORD_STOPPED", OpenRegistered)>>
                  /\ pc[last.by] = "l63"
    /\ \A c \in Conns : pc[c] = "l63" => notes[c] = <<"RECORD_STOPPED">>
    /\ Handled("resume_stop_stream") =>
          /\ sent = <<Call(last.by, "STREAM_STOPPED", OpenRegistered)>>
          /\ session = Idle
    /\ \A c \in Conns :
          (pc[c] = "l69" /\ notes[c] = <<"RECORD_STOPPED", "STREAM_STOPPED">>) =>
              /\ controlling_client # c
              /\ controlling_client = None => session = Idle
    /\ Handled("resume") => session = last.was

\* the controller's STOP_STREAM has sent RECORD_STOPPED and then STREAM_STOPPED
\* to an open connection, and the session is idle
C5_Witness ==
    /\ Handled("resume_stop_stream")
    /\ WasController = last.by
    /\ notes[last.by] = <<"RECORD_STOPPED", "STREAM_STOPPED">>
    /\ sent[1].to # {}
    /\ session = Idle

\* C6 (scenario D): unregister(conn) removes conn from the connection set;
\* it empties the controller slot and forces both flags to false exactly when
\* conn is the controller, with no command needed, and otherwise leaves the
\* flags and the controller as they are.
C6_ScenarioD ==
    Handled("unregister") =>
        /\ connected_clients = last.conns \ {last.by}
        /\ IF WasController = last.by
           THEN session = Idle
           ELSE session = last.was

\* the controller went away while recording
C6_Witness ==
    /\ Handled("unregister")
    /\ last.was = <<last.by, TRUE, TRUE>>
    /\ ~shutdown
    /\ session = Idle

\* C7: a START_STREAM of the connection that is the controller (so every
\* START_STREAM that directly follows one of the same controller) leaves
\* streaming_active, recording_active and controlling_client as they were;
\* its only effect is one more STREAM_STARTED broadcast.
C7_StartStreamIdempotent ==
    (Handled("START_STREAM") /\ WasController = last.by) =>
        /\ session = last.was
        /\ sent = <<Call(last.by, "STREAM_STARTED", OpenRegistered)>>

\* the controller repeated START_STREAM in the state its first one made
C7_Witness ==
    /\ Handled("START_STREAM")
    /\ last.was = <<last.by, TRUE, FALSE>>
    /\ session = last.was
    /\ Len(sent) = 1

\* C8: START_RECORD sets recording_active only when streaming_active is true
\* and the sender is the controller; with streaming_active false it changes
\* no state and RECORD_STOPPED is broadcast as the rejection.
C8_StartRecord ==
    Handled("START_RECORD") =>
        /\ (recording_active /\ ~WasRecording) => (WasStreaming /\ WasController = last.by)
        /\ ~WasStreaming =>
              /\ session = last.was
              /\ sent = <<Call(last.by, "RECORD_STOPPED", OpenRegistered)>>

\* a START_RECORD without a stream was answered by RECORD_STOPPED
C8_Witness ==
    /\ Handled("START_RECORD")
    /\ ~WasStreaming
    /\ Len(sent) = 1
    /\ sent[1].msg = "RECORD_STOPPED"
    /\ last.by \in sent[1].to

\* C9: STOP_RECORD clears recording_active only when the sender is the
\* controller and recording_active is true; it always leaves streaming_active
\* and the controller as they are, and RECORD_STOPPED is broadcast.
C9_StopRecord ==
    Handled("STOP_RECORD") =>
        /\ recording_active # WasRecording =>
              (WasController = last.by /\ WasRecording /\ ~recording_active)
        /\ streaming_active = WasStreaming
        /\ controlling_client = WasController
        /\ sent = <<Call(last.by, "RECORD_STOPPED", OpenRegistered)>>

\* a STOP_RECORD of a non-controller left the recording running
C9_Witness ==
    /\ Handled("STOP_RECORD")
    /\ WasRecording
    /\ WasController \notin {None, last.by}
    /\ recording_active
    /\ Len(sent) = 1

\* C10: STOP_LINK of the controller forces both flags to false and empties
\* the controller slot; STOP_LINK of any other connection changes no state;
\* in both cases nothing is broadcast.
C10_StopLink ==
    Handled("STOP_LINK") =>
        /\ sent = <<>>
        /\ pc[last.by] = "recv"
        /\ IF WasController = last.by
           THEN session = Idle
           ELSE session = last.was

\* the controller sent STOP_LINK while recording
C10_Witness ==
    /\ Handled("STOP_LINK")
    /\ last.was = <<last.by, TRUE, TRUE>>
    /\ session = Idle
    /\ sent = <<>>

\* C11: START_LINK, a text that is no command and a binary message leave the
\* session state and the connection set as they were and issue no
\* notification; the handler is back at the receive of line 29, ready for the
\* next message of its connection.
Inert == {"START_LINK", "PING", BIN}

C11_InertMessages ==
    last.op \in Inert =>
        /\ session = last.was
        /\ connected_clients = last.conns
        /\ sent = <<>>
        /\ pc[last.by] = "recv"

\* a binary message of a non-controller, a START_LINK of the controller and an
\* unknown text, each handled while a recording is running
C11_Witness ==
    /\ recording_active
    /\ \/ Handled(BIN) /\ last.by # controlling_client
       \/ Handled("START_LINK") /\ last.by = controlling_client
       \/ Handled("PING")

\* C12: the notifications let every client resynchronise.  Once a client that
\* connected before the recording and stayed connected has processed every
\* notification sent to it, its record_active is True exactly when the
\* recording_active of the server is True, whatever commands the clients sent
\* and whichever other clients disconnected.
C12_Resync ==
    consumer \in {"on", "off"} => ((consumer = "on") <=> recording_active)

\* C13 as stated: the state changes of one command, and of unregister, are
\* atomic; no other handler runs between the first and the last of them.
\* Here: no handler takes a step while another is suspended with a change of
\* its command made and further changes still to make.
C13_Atomic ==
    \A c \in Conns : PendingWrites(c) # {} => last.by \in {c, None}

\* C13 amended: one command is not atomic.  A STOP_STREAM of the controller
\* during a recording clears recording_active, suspends in the broadcast of
\* line 63 and clears streaming_active and controlling_client afterwards.  The
\* tasks that run meanwhile find the session streaming, not recording and
\* controlled by the sender, and change none of it.  Every other command makes
\* all its changes before its first broadcast: the return from the last
\* broadcast of a command changes neither session nor connection set, and the
\* continuation after line 63 changes streaming_active and controlling_client
\* only.  unregister_client runs in one step.
C13_AtomicButStopStream ==
    /\ \A c \in Conns :
         PendingWrites(c) # {} => session = <<c, TRUE, FALSE>>
    /\ Handled("resume") =>
         session = last.was /\ connected_clients = last.conns
    /\ Handled("resume_stop_stream") =>
         /\ last.was = <<last.by, TRUE, FALSE>>
         /\ session = Idle
         /\ connected_clients = last.conns

\* another connection's command is handled while the STOP_STREAM of the
\* controller is suspended on line 63
C13_Witness ==
    \E c \in Conns :
        /\ pc[c] = "l63"
        /\ last.by \notin {c, None}
        /\ last.op \in Commands

\* C14: the handler of a connection examines the next message only when the
\* command before it is complete: it is at the receive of line 29, no
\* broadcast of its command is awaited and no state change of it is still to
\* come.  (The order of the messages in the receive queue is the library's and
\* is not modelled.)  Commands of different connections do interleave at the
\* suspension points: the witness.
MessageOps == Commands \cup {"PING", BIN}

C14_OneCommandAtATime ==
    [][\A c \in Conns :
          (last'.by = c /\ last'.op \in MessageOps) =>
              /\ pc[c] = "recv"
              /\ notes[c] = <<>>
              /\ PendingWrites(c) = {}]_vars

\* while one handler awaits a broadcast, a command of another connection is
\* handled and changes the session
C14_Witness ==
    \E c, d \in Conns :
        /\ c # d
        /\ pc[c] \in BcastLabels
        /\ last.by = d
        /\ last.op \in Commands
        /\ session # last.was

\* C15: broadcast_loop issues frame sends only in an iteration that found
\* streaming_active true on line 54: every step in which a frame send to some
\* connection is issued starts with streaming_active true, so none is issued
\* while it is false.  (A send issued before a stop may still be in flight
\* after it.)
C15_FramesOnlyWhileStreaming ==
    [][inflight' \ inflight # {} => streaming_active]_vars

\* an iteration has issued frame sends; they are in flight
C15_Witness ==
    /\ did = "sent"
    /\ inflight # {}
    /\ streaming_active

\* C16: a failed send is isolated.  When a frame send fails, the other sends
\* of the batch stay in flight and the loop stays in its gather; no exception
\* ever ends the loop; no step of the broadcast task changes
\* connected_clients; and a handler that returns from a broadcast, whatever
\* became of its sends, goes on with its command and stays registered.
C16_FailedSendIsolated ==
    [][/\ \A w \in inflight :
            (w \notin inflight' /\ ~open[w]) =>
                /\ inflight' = inflight \ {w}
                /\ loop_pc' = loop_pc
                /\ did' = "failed"
       /\ loop_pc' # "raised"
       /\ bcast' # bcast => connected_clients' = connected_clients
       /\ \A c \in Conns :
            (pc[c] \in BcastLabels /\ pc'[c] # pc[c]) =>
                /\ pc'[c] \in {"recv", "l69"}
                /\ c \in connected_clients']_vars

\* a frame send has failed, another send of the same batch is still in flight
\* to an open connection, and the loop waits for it
C16_Witness ==
    /\ did = "failed"
    /\ loop_pc = "gather"
    /\ \E v \in inflight : open[v]

\* C17: an iteration of broadcast_loop that finds no latest frame, or no open
\* connection, issues no send and ends in a sleep, from which the next
\* iteration starts; and every iteration that passes the test of line 54
\* reads the latest frame anew, as the camera has left it by then.
TickStep == loop_pc = "sleep" /\ bcast' # bcast

C17_EmptyTick ==
    [][TickStep =>
          /\ (latest_frame = NoFrame \/ FrameTargets = {}) =>
                (inflight' = {} /\ loop_pc' = "sleep")
          /\ did' # "idle" => frame' = get_latest_frame
          /\ loop_pc' \in {"sleep", "gather"}]_vars

\* an iteration found a frame and no open connection and sleeps; the camera
\* has published a different frame since, which the next iteration will read
C17_Witness ==
    /\ did = "nosend"
    /\ loop_pc = "sleep"
    /\ streaming_active
    /\ latest_frame # NoFrame
    /\ frame.pix # latest_frame.pix

\* C18: the fan-out barrier.  While a send of an iteration has not completed,
\* by success or by failure, the loop is suspended in the gather of that
\* iteration: it has not started the next one and has not read another frame.
C18_Barrier ==
    inflight # {} =>
        /\ loop_pc = "gather"
        /\ did \in {"sent", "failed"}
        /\ frame # NoFrame

\* one send of the batch has failed, another is still in flight, the camera
\* has published a newer frame, and the loop still waits with the old one
C18_Witness ==
    /\ loop_pc = "gather"
    /\ did = "failed"
    /\ inflight # {}
    /\ latest_frame.pix # frame.pix

\* C19: get_latest_frame returns None exactly when no frame was ever
\* published, and otherwise a copy (an array of its own) of the frame published
\* last; so does every call made, also one made while the capture loop sleeps
\* after an error.
C19_LatestFrame ==
    /\ get_latest_frame = IF published = "none"
                          THEN NoFrame
                          ELSE [buf |-> "copy", pix |-> published]
    /\ get_latest_frame # NoFrame => get_latest_frame.buf # latest_frame.buf
    /\ got.frame # NoFrame => got.frame.buf = "copy" /\ published # "none"

\* a call made during the sleep after a capture error returned a copy of the
\* frame published last
C19_Witness ==
    /\ cam_pc = "backoff"
    /\ got.at = "backoff"
    /\ got.frame = [buf |-> "copy", pix |-> published]

\* C20: no fault ends the capture loop.  After a capture error the camera is
\* closed while the loop sleeps, the reconfiguration follows the full sleep
\* and not less, a failed reconfiguration leads to the next round of error,
\* sleep and reconfiguration, and when the device works the loop gets back to
\* publishing frames unless the device fails again.
C20_CaptureLoopSurvives ==
    /\ [](cam_pc # "raised")
    /\ [](cam_pc = "backoff" => ~picam_open)
    /\ [][(cam_pc = "backoff" /\ cam_pc' = "capture") =>
             waited = BackoffSeconds]_vars
    /\ (cam_pc = "capture" /\ ~picam_open) ~> (cam_pc = "backoff")
    /\ device_ok ~> (health \in Publishing \/ ~device_ok)

\* frames are published again after a capture error and a failed
\* reconfiguration
C20_Witness ==
    /\ health = "recovered_late"
    /\ cam_pc = "capture"
    /\ picam_open

\* --------------------------------------------------------------------
\* the client handles a message (the clock stands still while it does)
Receives(msg) ==
    /\ recorder.rec_pc = "recv"
    /\ recorder'.now = recorder.now
    /\ recorder'.done.msg = msg
Range(seq) == {seq[i] : i \in 1..Len(seq)}
Storage == <<recorder.dirs, recorder.jpgs>>
Recording ==
    <<recorder.record_active, recorder.record_dir, recorder.first_frame_timestamp>>
TimestampKept ==
    recorder'.first_frame_timestamp = recorder.first_frame_timestamp

\* C21: the client writes the file of a binary frame exactly when
\* record_active is True on its arrival; while record_active is False a binary
\* frame and a RECORD_STOPPED leave record_active, record_dir,
\* first_frame_timestamp, the directories and the files as they are, start no
\* encoder and delete nothing.
C21_PersistIffRecording ==
    [][/\ Receives(BIN) =>
            /\ ("write" \in Range(recorder'.done.steps)) <=> recorder.record_active
            /\ recorder.record_active =>
                  JpgPath(recorder.record_dir, recorder.now) \in recorder'.jpgs
            /\ ~recorder.record_active => recorder'.jpgs = recorder.jpgs
       /\ (~recorder.record_active
              /\ (Receives(BIN) \/ Receives("RECORD_STOPPED"))) =>
            /\ Recording' = Recording
            /\ Storage' = Storage
            /\ recorder'.rec_pc = recorder.rec_pc
            /\ Range(recorder'.done.steps) \cap {"write", "encode", "delete"} = {}
      ]_vars
C21_Witness ==
    /\ recorder.done = Did(BIN, <<"write">>, NoMkv)
    /\ recorder.record_active
    /\ JpgPath(recorder.record_dir, recorder.now) \in recorder.jpgs

\* C22: a RECORD_STOPPED that arrives while record_active is True clears the
\* flag, corrects the frames, starts the encoder and deletes the directory, in
\* this order: the encoder is started with the flag cleared and the directory
\* and its frames still there, the directory goes after the encoder has
\* exited.  The encoder is started exactly when the directory holds a frame;
\* with no frame the handler skips it and ends normally.
C22_StopOrder ==
    [][/\ (Receives("RECORD_STOPPED") /\ recorder.record_active) =>
            /\ ~recorder'.record_active
            /\ IF Glob(recorder.record_dir) # {}
               THEN /\ recorder'.done.steps = <<"flag_off", "correct", "encode">>
                    /\ recorder'.rec_pc = "l142"
                    /\ recorder'.record_dir = recorder.record_dir
                    /\ recorder.record_dir \in recorder'.dirs
                    /\ recorder'.jpgs = recorder.jpgs
               ELSE /\ recorder'.done.steps =
                          <<"flag_off", "correct", "skip", "delete">>
                    /\ recorder'.rec_pc = "recv"
                    /\ recorder.record_dir \notin recorder'.dirs
       /\ (recorder.rec_pc = "l144" /\ recorder'.rec_pc # "l144") =>
            /\ recorder'.rec_pc = "recv"
            /\ ~recorder'.record_active
            /\ recorder.record_dir \in recorder.dirs
            /\ recorder.record_dir \notin recorder'.dirs
            /\ \E exit \in {"exit0", "exit1"} :
                 recorder'.done.steps =
                    <<"flag_off", "correct", "encode", exit, "delete">>
      ]_vars
C22_Witness ==
    /\ recorder.done.msg = "RECORD_STOPPED"
    /\ recorder.done.steps = <<"flag_off", "correct", "encode", "exit0", "delete">>
    /\ ~recorder.record_active
    /\ recorder.dirs = {}

\* the step in which the encoder step of a finalization ends with the outcome
EncoderStepEnds(outcome) ==
    /\ recorder'.done # recorder.done
    /\ recorder'.done.msg = "RECORD_STOPPED"
    /\ outcome \in Range(recorder'.done.steps)

\* C23: when the encoder step of a finalization is over, the directory of the
\* frames and every file in it are gone, whether the encoder exited with
\* status 0, exited with another status, or was skipped for want of frames.
C23_DirectoryDeleted ==
    [][\A outcome \in {"exit0", "exit1", "skip"} :
          EncoderStepEnds(outcome) =>
             /\ recorder.record_dir \in recorder.dirs
             /\ recorder.record_dir \notin recorder'.dirs
             /\ \A f \in recorder'.jpgs : f[1] # recorder.record_dir
             /\ recorder'.rec_pc = "recv"
      ]_vars
C23_Witness ==
    /\ recorder.done.msg = "RECORD_STOPPED"
    /\ "exit1" \in Range(recorder.done.steps)
    /\ recorder.rec_pc = "recv"
    /\ recorder.dirs = {}
    /\ recorder.jpgs = {}

\* C24: a directory made on a RECORD_STARTED is finalized and deleted on a
\* RECORD_STOPPED: whatever notifications arrived, once the client has handled
\* a RECORD_STOPPED to the end, no directory of frames is left.
C24_NoDirectoryLeft ==
    (recorder.done.msg = "RECORD_STOPPED" /\ recorder.rec_pc = "recv") =>
        recorder.dirs = {}

\* the timestamp through one session: None after RECORD_STARTED, set by the
\* first frame handled while it is None, left alone by every later frame
LatchedByFirstFrame ==
    /\ Receives("RECORD_STARTED") => recorder'.first_frame_timestamp = None
    /\ (Receives(BIN) /\ recorder.record_active) =>
          /\ recorder.first_frame_timestamp = None =>
                recorder'.first_frame_timestamp = recorder.now
          /\ recorder.first_frame_timestamp # None => TimestampKept
    /\ (\E text \in Notifications \ {"RECORD_STARTED", "RECORD_STOPPED"} :
           Receives(text)) => TimestampKept
    /\ recorder'.now # recorder.now => TimestampKept
EncoderStarts == recorder.rec_pc = "recv" /\ recorder'.rec_pc = "l142"

\* C25: within a session the timestamp is None from RECORD_STARTED to
\* the first frame, set by that frame, unchanged by later frames, and the
\* container the encoder writes is named after the value the frame latched.
C25_NamedAfterFirstFrame ==
    [][/\ LatchedByFirstFrame
       /\ EncoderStarts =>
            /\ recorder.first_frame_timestamp # None
            /\ recorder'.done.mkv = VideoName(recorder.first_frame_timestamp)
      ]_vars

\* --------------------------------------------------------------------
Header == 4 + 12 + 16
Decrypted == cipher.result # Uncalled
CiphertextOf(b) == Slice(b, Header, Len(b))

\* C26: round trip.  For every plaintext m and every key k: when the packet
\* encrypt_data(m, k) returned reaches decrypt_data as it is and the client
\* holds the same k, decrypt_data returns m.
C26_RoundTrip ==
    (/\ Decrypted
     /\ cipher.packet # <<>>
     /\ cipher.edit = Unedited
     /\ cipher.client_key = cipher.server_key) =>
        /\ cipher.result.ret = "bytes"
        /\ cipher.result.value = cipher.plaintext
C26_Witness ==
    /\ Decrypted
    /\ cipher.edit = Unedited
    /\ cipher.client_key = cipher.server_key
    /\ Len(cipher.plaintext) = MaxLen
    /\ CiphertextOf(cipher.packet) # cipher.plaintext
    /\ cipher.result.value = cipher.plaintext

\* C27: decrypt_data returns None from its length checks, and raises nothing,
\* for every input shorter than 32 bytes (line 36) and for every input whose
\* length field declares more bytes than follow the 32 bytes of the header
\* (line 39): a packet cut short behind the header, or one whose length field
\* arrives as a larger number.
C27_Truncated ==
    Decrypted =>
        /\ cipher.result.ret # "raised"
        /\ Len(cipher.data) < Header => cipher.result = ReturnedNone(36)
        /\ (cipher.edit.kind = "cut" /\ cipher.edit.at >= Header) =>
              cipher.result = ReturnedNone(39)
        /\ (/\ cipher.edit.kind = "length"
            /\ cipher.edit.at > 1 \/ cipher.edit.to > Len(cipher.plaintext)) =>
              cipher.result = ReturnedNone(39)
C27_Witness ==
    /\ cipher.result = ReturnedNone(39)
    /\ cipher.edit.kind = "length"
    /\ cipher.edit.at = 4
    /\ cipher.edit.to = 127

\* C28: when one bit of the tag or of the ciphertext of a packet of
\* encrypt_data arrives flipped, decrypt_data returns None from its except
\* clause (line 49): the tag does not verify, and the ValueError does not
\* leave the function.
C28_BitFlipRejected ==
    (Decrypted /\ cipher.edit.kind = "bit" /\ cipher.edit.at > 4 + 12) =>
        cipher.result = ReturnedNone(49)
C28_Witness ==
    /\ cipher.result = ReturnedNone(49)
    /\ cipher.edit.kind = "bit"
    /\ cipher.edit.at > Header
    /\ cipher.client_key = cipher.server_key

\* C29: a packet of encrypt_data is 4 bytes of length, little-endian, the 12
\* bytes of the nonce, the 16 bytes of the tag and the ciphertext; the length
\* field is the length of the ciphertext, which is the length of the
\* plaintext; the packet has 32 + len(plaintext) bytes and passes both length
\* checks of decrypt_data.
C29_Layout ==
    cipher.packet # <<>> =>
        LET nonce == SubSeq(cipher.packet, 5, 16)
            tag == SubSeq(cipher.packet, 17, 32)
            ciphertext == SubSeq(cipher.packet, 33, Len(cipher.packet))
        IN  /\ Len(cipher.packet) = 32 + Len(cipher.plaintext)
            /\ Len(ciphertext) = Len(cipher.plaintext)
            /\ cipher.packet[1] = Len(cipher.plaintext) /\ cipher.packet[2] = 0
            /\ cipher.packet[3] = 0 /\ cipher.packet[4] = 0
            /\ nonce \in Nonces
            /\ tag = Poly1305(cipher.server_key, nonce, ciphertext)
            /\ ChaCha20(cipher.server_key, nonce, ciphertext) = cipher.plaintext
            /\ decrypt_data(cipher.packet, cipher.client_key).line
                  \notin {36, 37, 39}
C29_Witness ==
    /\ cipher.packet # <<>>
    /\ Len(cipher.packet) = Header + MaxLen
    /\ cipher.data = cipher.packet
    /\ cipher.result.line = 46

\* C30 as claimed: no two calls of encrypt_data (all under the one DATA_KEY of
\* the server) use the same nonce, whichever frames and connections they
\* were made for.
C30_NonceNeverRepeats ==
    \A i, j \in 1..Len(cipher.encrypt_calls) :
        i # j => cipher.encrypt_calls[i].nonce # cipher.encrypt_calls[j].nonce

\* C30 as amended: every call of encrypt_data, for every frame and in every
\* streaming task, draws a nonce of its own from get_random_bytes(12) and
\* puts that nonce into its packet.
C30_NonceDrawnPerCall ==
    /\ \A i \in 1..Len(cipher.encrypt_calls) :
          cipher.encrypt_calls[i].nonce = cipher.encrypt_calls[i].drawn
    /\ cipher.encrypt_calls # <<>> =>
          SubSeq(cipher.packet, 5, 16) =
             cipher.encrypt_calls[Len(cipher.encrypt_calls)].drawn
C30_Witness ==
    \E i, j \in 1..Len(cipher.encrypt_calls) :
        /\ i < j
        /\ cipher.encrypt_calls[i].by # cipher.encrypt_calls[j].by
        /\ cipher.encrypt_calls[i].nonce # cipher.encrypt_calls[j].nonce
        /\ cipher.encrypt_calls[j].nonce = cipher.encrypt_calls[j].drawn

\* ---------------------------------------------------------------- C31
\* C31: once the process has exited after a shutdown signal, the capture
\* thread was stopped before the exit (it was not left to end with the
\* interpreter), every task was cancelled and has ended, and no handler is
\* left in the middle of its work.
C31_ShutdownJoinsAll ==
    process.exited =>
        /\ process.killed = {}
        /\ process.ended = MainTasks
        /\ \A c \in Conns : pc[c] = "none"
        /\ connected_clients = {}

\* ---------------------------------------------------------------- C32
\* C32: a START_RECORD handled while streaming, from a connection that is
\* not the controller, leaves recording_active (and the rest of the
\* session) as it was, and RECORD_STARTED is broadcast all the same, to
\* every open registered connection.
C32_UnconditionalRecordStarted ==
    (Handled("START_RECORD") /\ WasStreaming /\ WasController # last.by) =>
        /\ recording_active = WasRecording
        /\ session = last.was
        /\ sent = <<Call(last.by, "RECORD_STARTED", OpenRegistered)>>

\* no recording runs, and the controller and the sender were both told
\* that one has started
C32_Witness ==
    /\ Handled("START_RECORD")
    /\ WasStreaming
    /\ WasController # last.by
    /\ ~recording_active
    /\ Len(sent) = 1
    /\ sent[1].msg = "RECORD_STARTED"
    /\ {controlling_client, last.by} \subseteq sent[1].to

\* ---------------------------------------------------------------- C33
\* C33: the viewer attempts the candidates in the order of the list; a
\* failed attempt leads to the attempt of the next candidate, or to the
\* return of the function when there is none, and to nothing else; and no
\* candidate is attempted that comes after one whose connection was
\* established.
C33_FirstConnectionIsLast ==
    /\ \A j \in 1..Len(viewer.attempted) : viewer.attempted[j] = j
    /\ viewer.did = "refused" =>
          \/ viewer.at = "dial" /\ viewer.candidate = Len(viewer.attempted)
          \/ viewer.at = "returned" /\ viewer.ended = "exhausted"
    /\ \A j \in 1..Len(viewer.attempted) :
       \A k \in 1..Len(viewer.established) :
          viewer.attempted[j] <= viewer.established[k]

\* ---------------------------------------------------------------- C34
\* C34: in every state between two steps of the tasks of the Pi server,
\* streaming_active is true exactly when controlling_client is set; so with
\* no controller there is neither a stream nor a recording, at any time and
\* not only once the cleanup of a disconnect is over.
C34_StreamingIffController ==
    /\ streaming_active <=> controlling_client # None
    /\ controlling_client = None => ~streaming_active /\ ~recording_active

\* the controller has gone while it was streaming and recording, and another
\* connection is in the middle of a command
C34_Witness ==
    /\ Handled("unregister")
    /\ WasController = last.by
    /\ WasStreaming
    /\ WasRecording
    /\ controlling_client = None
    /\ \E c \in Conns : pc[c] \in BcastLabels

\* ---------------------------------------------------------------- C35
\* C35: whenever controlling_client is set it is a member of
\* connected_clients: the slot is taken by registered connections only
\* (a handler runs after register_client), and unregister_client empties it
\* in the step that removes the connection.
C35_ControllerIsRegistered ==
    controlling_client # None => controlling_client \in connected_clients

\* the controller has just unregistered, and took the slot with it, while
\* another connection stays registered
C35_Witness ==
    /\ Handled("unregister")
    /\ WasController = last.by
    /\ last.by \notin connected_clients
    /\ controlling_client = None
    /\ connected_clients # {}

\* ---------------------------------------------------------------- C36
\* C36: while the STOP_STREAM of the controller c is suspended in the
\* broadcast of RECORD_STOPPED (line 63), a step of another connection's
\* handler finds c the controller and the stream active and leaves both so:
\* nobody else becomes controller, nobody else changes streaming_active.
\* When the STOP_STREAM continues, the slot and the stream it clears are
\* still the ones of its sender.
C36_DeferredClearRevokesNothing ==
    /\ \A c \in Conns :
          (pc[c] = "l63" /\ last.by \notin {c, None}) =>
              /\ WasController = c /\ controlling_client = c
              /\ WasStreaming /\ streaming_active
    /\ Handled("resume_stop_stream") =>
          /\ WasController = last.by
          /\ WasStreaming
          /\ controlling_client = None /\ ~streaming_active

\* another connection asked for the stream while the controller's
\* STOP_STREAM was suspended on line 63
C36_Witness ==
    \E c \in Conns :
        /\ pc[c] = "l63"
        /\ last.by \notin {c, None}
        /\ Handled("START_STREAM")
        /\ controlling_client = c

\* ---------------------------------------------------------------- C37
\* C37: a handler ends in unregister_client only, however it ends (the
\* connection closed, an exception caught on line 95, CancelledError): the
\* step that ends the handler of c removes c from connected_clients.  With
\* fair scheduling every connection that is closed while registered is
\* removed from connected_clients in the end, and when the controller's
\* connection is closed the session gets back to Idle, the slot empty.
C37_ClosedIsReaped ==
    /\ [][\A c \in Conns :
            (pc[c] # "none" /\ pc'[c] = "none") =>
                /\ last'.op = "unregister" /\ last'.by = c
                /\ c \notin connected_clients']_vars
    /\ \A c \in Conns :
          (c \in connected_clients /\ ~open[c]) ~> (c \notin connected_clients)
    /\ \A c \in Conns :
          (controlling_client = c /\ ~open[c]) ~> (session = Idle)

\* the handler of the controller was cancelled during a recording, and
\* unregister_client has emptied the slot
C37_Witness ==
    /\ shutdown
    /\ Handled("unregister")
    /\ WasController = last.by
    /\ WasRecording
    /\ session = Idle
    /\ last.by \notin connected_clients

\* ---------------------------------------------------------------- C38
\* C38: every iteration of broadcast_loop is suspended at least once, in a
\* sleep or in the gather of its sends, with the FPS limit as without it and
\* whatever connected_clients holds: the task never reaches the top of the
\* loop from an iteration that was not suspended, and never keeps a handler
\* that is ready from running.
C38_EveryIterationSuspends ==
    /\ loop_pc # "spun"
    /\ \A c \in Conns :
          (pc[c] = "recv" /\ ~open[c] /\ ~unread[c]) =>
              loop_pc \in {"sleep", "gather", "raised"}

====
